---- MODULE Spec2Model ----
(***************************************************************************)
(* The sender of the Sumo Logic exporter (pkg/exporter/sumologicexporter): *)
(* record buffers, the line-oriented and OTLP drains, the body builder     *)
(* appendAndSend, the transport send and the response interpreter          *)
(* handleReceiverResponse.                                                 *)
(*                                                                         *)
(* Strings are sequences of integers.  The formatted line of the record    *)
(* pushed at buffer position p is a run of the character p, so a body can  *)
(* be split back into the lines of the records it holds; NL is the "\n"    *)
(* separator.  Errors are sequences of leaf errors (what multierr.Combine  *)
(* flattens to); the nil error is the empty sequence.                      *)
(*                                                                         *)
(* External collaborators taken as given: compressor.compress and          *)
(* http.NewRequestWithContext succeed (in-memory readers, validated        *)
(* configuration), the metric renderers and the log body are opaque        *)
(* strings of any length, possibly empty, that hold no newline.            *)
(*                                                                         *)
(* A request is recorded with the Content-Type and X-Sumo-Fields headers    *)
(* it carries; the client, compression and source headers do not depend    *)
(* on the pipeline and are left out.  A response body is empty, a JSON     *)
(* document with its id, code, message and errors, or text that does not   *)
(* decode.  SpecResponse runs the response interpreter alone, over every   *)
(* such response.                                                          *)
(*                                                                         *)
(* calls and ret describe the operation that just returned: the requests   *)
(* it issued with their outcomes, and its return values together with the  *)
(* buffer it worked on.  Return hands them to the caller; the sender is    *)
(* driven by one caller, one call at a time.                               *)
(*                                                                         *)
(* Attribute keys and values, and the fields string built from them, are   *)
(* sequences of one-character strings, in the byte order of ByteOrder.     *)
(*                                                                         *)
(* Further specifications run one part alone, from every input of a small  *)
(* set: SpecFields (fields.string), SpecJSON (logToJSON), SpecCache (the   *)
(* metric cache of metricfrequencyprocessor), SpecProcessLogs, SpecFilter  *)
(* and SpecPodName (the source processor), SpecDrain (one drain of a       *)
(* buffer of any content), SpecAlias (the sender with the backing arrays   *)
(* of its buffers and a dropped list its caller kept) and SpecBoth (the    *)
(* sender from every pair of a log buffer and a metric buffer).            *)
(***************************************************************************)
EXTENDS Integers, Sequences, FiniteSets, TLC

VARIABLES config, logBuffer, metricBuffer, calls, ret,
          args, result, backing, held

vars == <<config, logBuffer, metricBuffer, calls, ret, args, result, backing, held>>

\* The sender proper, and what the other specifications of this module use:
\* the arguments and the result of a pure function, the backing arrays of
\* the two buffers and a dropped list a caller still holds.
sender == <<config, logBuffer, metricBuffer, calls, ret>>

aux == <<args, result, backing, held>>

(* ------------------------------ bounds --------------------------------- *)

\* maxBufferSize is 1024 * 1024 in the source; the model scales it down.
maxBufferSize == 3

\* config.MaxRequestBodySize, an input of the sender.
MaxRequestBodySize == 3

\* Longest body of a log record / rendered metric line that is enumerated
\* (a JSON line is two characters longer than the body it wraps).
MaxLineLen == 3

\* Largest trace batch handed to sendTraces.
MaxSpans == 1

\* While both buffers hold records, pushes are enumerated up to this many
\* records in the two buffers together.
MaxMixed == 2

\* The most attributes of a map given to fields.string().
MaxAttrs == 3

\* The most attributes of a log record given to logToJSON.
MaxJSONAttrs == 2

\* The most Register calls made on one metric cache.
MaxRegisters == 3

\* The most log records in one ProcessLogs call.
MaxLogs == 2

\* The most characters of a pod attribute given to enrichPodName.
MaxPodLen == 5

(* ----------------------------- constants ------------------------------- *)

NL == 0
OTLPTag == -1

LogsPipeline == "logs"
MetricsPipeline == "metrics"
TracesPipeline == "traces"

TextFormat == "text"
JSONFormat == "json"
OTLPLogFormat == "otlp"
PrometheusFormat == "prometheus"
Carbon2Format == "carbon2"
GraphiteFormat == "graphite"
OTLPMetricFormat == "otlp"
OTLPTraceFormat == "otlp"
UnknownFormat == "xml"

contentTypeLogs == "application/x-www-form-urlencoded"
contentTypePrometheus == "application/vnd.sumologic.prometheus"
contentTypeCarbon2 == "application/vnd.sumologic.carbon2"
contentTypeGraphite == "application/vnd.sumologic.graphite"
contentTypeOTLP == "application/x-protobuf"

\* Attribute keys and values, and the field string made of them, are
\* sequences of one-character strings.
attributeKeySourceHost == <<"_", "s", "o", "u", "r", "c", "e", "H", "o", "s", "t">>
attributeKeySourceName == <<"_", "s", "o", "u", "r", "c", "e", "N", "a", "m", "e">>
attributeKeySourceCategory ==
    <<"_", "s", "o", "u", "r", "c", "e", "C", "a", "t", "e", "g", "o", "r", "y">>

SourceKeys ==
    {attributeKeySourceCategory, attributeKeySourceHost, attributeKeySourceName}

\* The characters of the model's attribute keys and values and of the
\* replacer, in ascending byte value: the order sort.Strings compares by.
ByteOrder ==
    <<"\n", " ", ",", "1", "2", ":", "=", "C", "H", "N", "_", "a", "b", "c",
      "e", "g", "h", "i", "l", "m", "o", "p", "r", "s", "t", "u", "y">>

Nil == <<>>
errUnauthorized == <<"unauthorized">>
errNetwork == <<"client.Do">>

\* strings.Builder.WriteString always returns a nil error.
WriteStringOk == TRUE

\* The protobuf marshalers of pdata do not fail on a well-formed pdata value.
MarshalOk == TRUE

(* ------------------------------ inputs --------------------------------- *)

\* One (LogFormat, MetricFormat, TraceFormat) triple per sender; every
\* format of every signal occurs in at least one of them.
FormatTriples ==
    { <<TextFormat, PrometheusFormat, OTLPTraceFormat>>,
      <<JSONFormat, Carbon2Format, OTLPTraceFormat>>,
      <<OTLPLogFormat, GraphiteFormat, UnknownFormat>>,
      <<UnknownFormat, OTLPMetricFormat, OTLPTraceFormat>>,
      <<UnknownFormat, UnknownFormat, UnknownFormat>> }

\* The metadata (flds) handed to the sender together with the records.
\* An attribute map is the sequence of its <<key, value>> entries in the
\* order Range visits them; its keys are distinct.
SomeFields == << << <<"b">>, <<"2">> >>, << <<"a">>, <<"1">> >> >>
HiddenFields == << <<attributeKeySourceHost, <<"h">> >>, << <<"a">>, <<>> >> >>
NoFields == <<>>

Configs ==
    { [LogFormat |-> t[1], MetricFormat |-> t[2], TraceFormat |-> t[3],
       MaxRequestBodySize |-> MaxRequestBodySize] : t \in FormatTriples }

\* resp.StatusCode values: the two success codes, 401, a 5xx.
Statuses == {200, 204, 401, 500}

\* The statuses of the response interpreter's own specification: also two
\* 2xx codes that are not success codes of the receiver, and a 4xx.
AllStatuses == Statuses \cup {201, 202, 404}

\* The JSON document of a response body (ReceiverErrorResponse): a string
\* field is "" when the document does not hold it, errors is the list of
\* its {code, message} entries.
NoJSON == [id |-> "", code |-> "", message |-> "", errors |-> <<>>]

FullJSON ==
    [id |-> "id1", code |-> "code1", message |-> "msg1",
     errors |-> <<[code |-> "ecode", message |-> "emsg"]>>]

JSONDocs ==
    { [id |-> i, code |-> c, message |-> m, errors |-> e] :
        i \in {"", "id1"}, c \in {"", "code1"}, m \in {"", "msg1"},
        e \in {<<>>, <<[code |-> "ecode", message |-> "emsg"]>>} }

\* The outcome of client.Do: an error (doErr), or a response with its
\* StatusCode, ContentLength (-1 unknown, 0, 1 for any positive length),
\* body ("none" empty, "json" decodable, "garbage" undecodable) and, for a
\* decodable body, the document it holds.
ResponsesOf(statuses, docs) ==
    { [doErr |-> FALSE, status |-> s, contentLength |-> c, body |-> b,
       json |-> d] :
        s \in statuses,
        c \in {-1, 0, 1},
        b \in {"none", "json", "garbage"},
        d \in docs \cup {NoJSON} }

Responses == ResponsesOf(Statuses, {FullJSON})

WellFormed(r) ==
    /\ r.contentLength = 0 => r.body = "none"
    /\ r.contentLength = 1 => r.body # "none"
    /\ r.body # "json" => r.json = NoJSON

DoError ==
    [doErr |-> TRUE, status |-> 0, contentLength |-> 0, body |-> "none",
     json |-> NoJSON]

\* The outcomes of the drains' specification; a decodable body holds the
\* document FullJSON.
Outcomes ==
    { r \in Responses : WellFormed(r) /\ (r.body = "json" => r.json = FullJSON) }
    \cup {DoError}

\* Every well-formed response over AllStatuses and JSONDocs.
RichOutcomes ==
    { r \in ResponsesOf(AllStatuses, JSONDocs) : WellFormed(r) } \cup {DoError}

PlainOK ==
    [doErr |-> FALSE, status |-> 200, contentLength |-> 0, body |-> "none",
     json |-> NoJSON]

\* The outcomes of the n requests one operation issues: every mix of plain
\* successes and transport errors, and every single outcome at every
\* position among plain successes.
OutcomeSeqs(n) ==
    [1..n -> {PlainOK, DoError}]
    \cup { [i \in 1..n |-> IF i = k THEN o ELSE PlainOK] :
             k \in 1..n, o \in Outcomes }

\* A record pushed at buffer position p: its body / rendered line has `len`
\* characters; `bad` says json.Marshal rejects its attributes (a NaN double).
Record(p, n, b) == [pos |-> p, len |-> n, bad |-> b]

\* The metadata that accompanies the records of a sender: every rendering of
\* fields.string() (entries, none because every attribute is skipped, none
\* because there is no attribute) occurs for the signals that are sent.
Metadata(cfg) ==
    CASE cfg.LogFormat = JSONFormat -> HiddenFields
      [] cfg.LogFormat = OTLPLogFormat -> NoFields
      [] OTHER -> SomeFields

(* --------------------------- pure functions ---------------------------- *)

Line(p, n) == [k \in 1..n |-> p]

logToText(record) == Line(record.pos, record.len)

\* json.Marshal of the attributes and the body: never empty ("{...}").
logToJSON(record) ==
    IF record.bad
    THEN [line |-> <<>>, err |-> <<"json: unsupported value">>]
    ELSE [line |-> Line(record.pos, record.len + 2), err |-> Nil]

metric2String(record) == Line(record.pos, record.len)

\* multierr.Combine: the non-nil errors, flattened, nil when there is none.
RECURSIVE Combine(_)
Combine(errs) ==
    IF errs = <<>> THEN Nil
    ELSE IF Head(errs) = Nil THEN Combine(Tail(errs))
    ELSE <<Head(errs)>> \o Combine(Tail(errs))

\* errors.Is(err, errUnauthorized) on a (possibly combined) error.
IsUnauthorized(err) == \E i \in 1..Len(err) : err[i] = errUnauthorized

Decodes(resp) == resp.body = "json"

\* rResponse after the default case read the body: the decoded document
\* when ContentLength is positive, the zero value otherwise.
rResponseOf(resp) == IF resp.contentLength > 0 THEN resp.json ELSE NoJSON

RECURSIVE ErrorsText(_)
\* The %+v rendering of rResponse.Errors, entry by entry.
ErrorsText(errors) ==
    IF errors = <<>> THEN <<>>
    ELSE <<Head(errors).code, Head(errors).message>> \o ErrorsText(Tail(errors))

\* Mutant (C11): the code is listed before the id.
errMsgs_codeFirst(resp, rResponse) ==
    <<"status", ToString(resp.status)>>
    \o (IF rResponse.code # "" THEN <<"code", rResponse.code>> ELSE <<>>)
    \o (IF rResponse.id # "" THEN <<"id", rResponse.id>> ELSE <<>>)
    \o (IF rResponse.message # "" THEN <<"message", rResponse.message>> ELSE <<>>)
    \o (IF rResponse.errors # <<>>
        THEN <<"errors">> \o ErrorsText(rResponse.errors) ELSE <<>>)

\* errMsgs of the default case, each "name: value" entry as two strings.
errMsgs(resp, rResponse) ==
    <<"status", ToString(resp.status)>>
    \o (IF rResponse.id # "" THEN <<"id", rResponse.id>> ELSE <<>>)
    \o (IF rResponse.code # "" THEN <<"code", rResponse.code>> ELSE <<>>)
    \o (IF rResponse.message # "" THEN <<"message", rResponse.message>> ELSE <<>>)
    \o (IF rResponse.errors # <<>>
        THEN <<"errors">> \o ErrorsText(rResponse.errors) ELSE <<>>)

\* Mutant (C12): a body that fails to decode is reported without its text.
decodeError_noBody(resp) ==
    <<"failed to decode API response", "status", ToString(resp.status)>>

\* The error of a body that fails to decode: the status and the raw text.
decodeError(resp) ==
    <<"failed to decode API response", "status", ToString(resp.status),
      "body", resp.body>>

\* Mutant (C9): an undecodable body on a 200/204 response is an error.
handleReceiverResponse_strictDecode(resp) ==
    IF resp.contentLength = 0 /\ resp.status \in {200, 204}
    THEN Nil
    ELSE IF resp.status \in {200, 204}
    THEN (IF Decodes(resp) THEN Nil ELSE decodeError(resp))
    ELSE IF resp.status = 401
    THEN errUnauthorized
    ELSE IF resp.contentLength > 0 /\ ~Decodes(resp)
    THEN decodeError(resp)
    ELSE <<"failed sending data">> \o errMsgs(resp, rResponseOf(resp))

\* Mutant (C10): the 401 case is only reached for a response without body.
handleReceiverResponse_401AfterDecode(resp) ==
    IF resp.contentLength = 0 /\ resp.status \in {200, 204}
    THEN Nil
    ELSE IF resp.status \in {200, 204}
    THEN Nil
    ELSE IF resp.contentLength > 0 /\ ~Decodes(resp)
    THEN decodeError(resp)
    ELSE IF resp.status = 401
    THEN errUnauthorized
    ELSE <<"failed sending data">> \o errMsgs(resp, rResponseOf(resp))

handleReceiverResponse(resp) ==
    IF resp.contentLength = 0 /\ resp.status \in {200, 204}
    THEN Nil
    ELSE IF resp.status \in {200, 204}
    THEN Nil   \* decode failure and decoded warnings are both only logged
    ELSE IF resp.status = 401
    THEN errUnauthorized
    ELSE IF resp.contentLength > 0 /\ ~Decodes(resp)
    THEN decodeError(resp)
    ELSE <<"failed sending data">> \o errMsgs(resp, rResponseOf(resp))

\* The headers a request carries, as far as the model follows them: the
\* Content-Type values and the X-Sumo-Fields values added to it, in order.
NoHeaders == [contentType |-> <<>>, fields |-> <<>>]

\* fields.string(): the "key=value" entries (a <<key, value>> pair each) of
\* the attributes that are no source attribute and have a non-empty value,
\* sorted; the empty string is the empty sequence.  Keys and values of
\* the model hold none of the characters sanitizeField replaces.
\* strings.NewReplacer(",", "_", "=", ":", "\n", "_") on one character.
replacer(c) ==
    CASE c = "," -> "_"
      [] c = "=" -> ":"
      [] c = "\n" -> "_"
      [] OTHER -> c

sanitizeField(fld) == [i \in 1..Len(fld) |-> replacer(fld[i])]

Ord(c) == CHOOSE i \in 1..Len(ByteOrder) : ByteOrder[i] = c

\* s < t as Go compares strings: by the first byte that differs, a proper
\* prefix before its extensions.
stringLess(s, t) ==
    \E i \in 1..Len(t) :
        /\ i - 1 <= Len(s)
        /\ \A k \in 1..(i - 1) : s[k] = t[k]
        /\ (Len(s) = i - 1 \/ Ord(s[i]) < Ord(t[i]))

\* sort.Strings: each string goes to the place that the number of strings
\* before it gives; equal strings keep their order.
sortStrings(strs) ==
    [r \in 1..Len(strs) |->
        strs[CHOOSE i \in 1..Len(strs) :
               r = 1 + Cardinality({ j \in 1..Len(strs) :
                                      \/ stringLess(strs[j], strs[i])
                                      \/ strs[j] = strs[i] /\ j < i })]]

\* strings.Join
RECURSIVE stringsJoin(_, _)
stringsJoin(strs, sep) ==
    IF strs = <<>> THEN <<>>
    ELSE IF Len(strs) = 1 THEN strs[1]
    ELSE strs[1] \o sep \o stringsJoin(Tail(strs), sep)

\* The entries fields.string() collects while ranging over the map.
RECURSIVE returnValue(_)
returnValue(flds) ==
    IF flds = <<>> THEN <<>>
    ELSE LET k == Head(flds)[1]
             sv == Head(flds)[2]
         IN  IF k \in SourceKeys \/ Len(sv) = 0
             THEN returnValue(Tail(flds))
             ELSE <<sanitizeField(k) \o <<"=">> \o sanitizeField(sv)>>
                  \o returnValue(Tail(flds))

\* Mutant (C21): fields.string() without sort.Strings.
fieldsString_unsorted(flds) == stringsJoin(returnValue(flds), <<",", " ">>)

fieldsString(flds) == stringsJoin(sortStrings(returnValue(flds)), <<",", " ">>)

\* Mutant (C20): the fields header is added whatever fields.string() is.
addLogsHeaders_always(lf, flds) ==
    [contentType |-> <<IF lf = OTLPLogFormat THEN contentTypeOTLP
                       ELSE contentTypeLogs>>,
     fields |-> <<fieldsString(flds)>>]

addLogsHeaders(lf, flds) ==
    [contentType |-> <<IF lf = OTLPLogFormat THEN contentTypeOTLP
                       ELSE contentTypeLogs>>,
     fields |-> SelectSeq(<<fieldsString(flds)>>, LAMBDA fieldsStr : fieldsStr # <<>>)]

\* Mutant (C19): Carbon2 metrics are announced as Prometheus metrics.
addMetricsHeaders_carbon2AsPrometheus(mf) ==
    CASE mf = PrometheusFormat ->
           [err |-> Nil, headers |-> [NoHeaders EXCEPT !.contentType = <<contentTypePrometheus>>]]
      [] mf = Carbon2Format ->
           [err |-> Nil, headers |-> [NoHeaders EXCEPT !.contentType = <<contentTypePrometheus>>]]
      [] mf = GraphiteFormat ->
           [err |-> Nil, headers |-> [NoHeaders EXCEPT !.contentType = <<contentTypeGraphite>>]]
      [] mf = OTLPMetricFormat ->
           [err |-> Nil, headers |-> [NoHeaders EXCEPT !.contentType = <<contentTypeOTLP>>]]
      [] OTHER -> [err |-> <<"unsupported metrics format">>, headers |-> NoHeaders]

addMetricsHeaders(mf) ==
    CASE mf = PrometheusFormat ->
           [err |-> Nil, headers |-> [NoHeaders EXCEPT !.contentType = <<contentTypePrometheus>>]]
      [] mf = Carbon2Format ->
           [err |-> Nil, headers |-> [NoHeaders EXCEPT !.contentType = <<contentTypeCarbon2>>]]
      [] mf = GraphiteFormat ->
           [err |-> Nil, headers |-> [NoHeaders EXCEPT !.contentType = <<contentTypeGraphite>>]]
      [] mf = OTLPMetricFormat ->
           [err |-> Nil, headers |-> [NoHeaders EXCEPT !.contentType = <<contentTypeOTLP>>]]
      [] OTHER -> [err |-> <<"unsupported metrics format">>, headers |-> NoHeaders]

addTracesHeaders(tf) ==
    IF tf = OTLPTraceFormat
    THEN [err |-> Nil, headers |-> [NoHeaders EXCEPT !.contentType = <<contentTypeOTLP>>]]
    ELSE [err |-> <<"unsupported traces format">>, headers |-> NoHeaders]

\* addRequestHeaders: the error it returns and the headers it added.  The
\* client, compression and source headers are the same for every request
\* of a sender and are left out.
addRequestHeaders(cfg, pipeline, flds) ==
    CASE pipeline = LogsPipeline ->
           [err |-> Nil, headers |-> addLogsHeaders(cfg.LogFormat, flds)]
      [] pipeline = MetricsPipeline -> addMetricsHeaders(cfg.MetricFormat)
      [] pipeline = TracesPipeline -> addTracesHeaders(cfg.TraceFormat)
      [] OTHER -> [err |-> <<"unexpected pipeline">>, headers |-> NoHeaders]

\* send: the error it returns and the network calls it made (none or one).
\* recs lists the positions of the records whose line was written to body.
\* sendRequest is send from the result h of addRequestHeaders on.
sendRequest(h, pipeline, body, recs, outcome) ==
    LET call == [pipeline |-> pipeline, body |-> body, recs |-> recs,
                 headers |-> h.headers, resp |-> outcome]
    IN  IF h.err # Nil THEN [err |-> h.err, calls |-> <<>>]
        ELSE IF outcome.doErr THEN [err |-> errNetwork, calls |-> <<call>>]
        ELSE [err |-> handleReceiverResponse(outcome), calls |-> <<call>>]

send(cfg, pipeline, body, recs, flds, outcome) ==
    sendRequest(addRequestHeaders(cfg, pipeline, flds), pipeline, body, recs,
                outcome)

\* The error of the send that made a recorded call.
CallErr(c) == IF c.resp.doErr THEN errNetwork ELSE handleReceiverResponse(c.resp)

(* ------------------------------ drains --------------------------------- *)

\* Mutant (C15): the separator byte counts towards the threshold.
thresholdReached_countSeparator(cfg, body, line) ==
    Len(body) > 0 /\ Len(body) + 1 + Len(line) >= cfg.MaxRequestBodySize

\* Mutant (C16): only the body accumulated so far is compared.
thresholdReached_ignoreLine(cfg, body, line) ==
    Len(body) > 0 /\ Len(body) >= cfg.MaxRequestBodySize

\* Mutant (C17): the body is flushed only when the limit would be exceeded.
thresholdReached_strict(cfg, body, line) ==
    Len(body) > 0 /\ Len(body) + Len(line) > cfg.MaxRequestBodySize

\* The test appendAndSend makes before it writes line to body.
thresholdReached(cfg, body, line) ==
    Len(body) > 0 /\ Len(body) + Len(line) >= cfg.MaxRequestBodySize

\* appendAndSend on the body b = [body, recs] for the line of record p.
\* outs are the outcomes still unused; the result carries the new body, the
\* appendResponse, the combined error, the calls made and the outcomes left.
appendAndSend(cfg, line, p, pipeline, b, flds, outs) ==
    LET flush == thresholdReached(cfg, b.body, line)
        sd == IF flush
              THEN send(cfg, pipeline, b.body, b.recs, flds, Head(outs))
              ELSE [err |-> Nil, calls |-> <<>>]
        b1 == IF flush THEN [body |-> <<>>, recs |-> <<>>] ELSE b
        sepNeeded == Len(b1.body) > 0
        sepErr == IF sepNeeded /\ ~WriteStringOk THEN <<"write">> ELSE Nil
        b2 == IF sepNeeded /\ WriteStringOk
              THEN [b1 EXCEPT !.body = @ \o <<NL>>] ELSE b1
        appended1 == sepErr = Nil
        lineErr == IF appended1 /\ ~WriteStringOk THEN <<"write">> ELSE Nil
        b3 == IF appended1 /\ WriteStringOk
              THEN [body |-> b2.body \o line, recs |-> Append(b2.recs, p)]
              ELSE b2
    IN  [ar |-> [sent |-> flush, appended |-> appended1 /\ lineErr = Nil],
         err |-> Combine(<<sd.err, sepErr, lineErr>>),
         b |-> b3,
         calls |-> sd.calls,
         outs |-> IF flush THEN Tail(outs) ELSE outs]

\* The formatted line of a log record under the configured format.
formatLog(cfg, record) ==
    CASE cfg.LogFormat = TextFormat -> [line |-> logToText(record), err |-> Nil]
      [] cfg.LogFormat = JSONFormat -> logToJSON(record)
      [] OTHER -> [line |-> <<>>, err |-> <<"unexpected log format">>]

formatMetric(cfg, record) ==
    IF cfg.MetricFormat \in {PrometheusFormat, Carbon2Format, GraphiteFormat}
    THEN [line |-> metric2String(record), err |-> Nil]
    ELSE [line |-> <<>>, err |-> <<"unexpected metric format">>]

format(cfg, pipeline, record) ==
    IF pipeline = LogsPipeline THEN formatLog(cfg, record)
    ELSE formatMetric(cfg, record)

DrainStart(outs) ==
    [b |-> [body |-> <<>>, recs |-> <<>>], errs |-> <<>>,
     droppedRecords |-> <<>>, currentRecords |-> <<>>,
     calls |-> <<>>, outs |-> outs]

\* Mutant (C1): currentRecords is not reset after a threshold flush.
drainStep_keepCurrent(cfg, pipeline, record, flds, st) ==
    LET f == format(cfg, pipeline, record)
    IN  IF f.err # Nil
        THEN [st EXCEPT !.droppedRecords = Append(@, record),
                        !.errs = Append(@, f.err)]
        ELSE
          LET a == appendAndSend(cfg, f.line, record.pos, pipeline, st.b, flds,
                                 st.outs)
              d1 == IF a.err # Nil /\ a.ar.sent
                    THEN st.droppedRecords \o st.currentRecords
                    ELSE st.droppedRecords
              d2 == IF a.err # Nil /\ ~a.ar.appended
                    THEN Append(d1, record) ELSE d1
              c2 == IF a.ar.appended
                    THEN Append(st.currentRecords, record) ELSE st.currentRecords
          IN  [b |-> a.b,
               errs |-> st.errs \o a.err,
               droppedRecords |-> d2,
               currentRecords |-> c2,
               calls |-> st.calls \o a.calls,
               outs |-> a.outs]

\* Mutant (C18): a format failure also gives up the records accumulated in
\* the current body.
drainStep_formatErrorDropsCurrent(cfg, pipeline, record, flds, st) ==
    LET f == format(cfg, pipeline, record)
    IN  IF f.err # Nil
        THEN [st EXCEPT !.droppedRecords = (@ \o st.currentRecords) \o <<record>>,
                        !.currentRecords = <<>>,
                        !.b = [body |-> <<>>, recs |-> <<>>],
                        !.errs = Append(@, f.err)]
        ELSE
          LET a == appendAndSend(cfg, f.line, record.pos, pipeline, st.b, flds,
                                 st.outs)
              d1 == IF a.err # Nil /\ a.ar.sent
                    THEN st.droppedRecords \o st.currentRecords
                    ELSE st.droppedRecords
              d2 == IF a.err # Nil /\ ~a.ar.appended
                    THEN Append(d1, record) ELSE d1
              c1 == IF a.ar.sent THEN <<>> ELSE st.currentRecords
              c2 == IF a.ar.appended THEN Append(c1, record) ELSE c1
          IN  [b |-> a.b,
               errs |-> st.errs \o a.err,
               droppedRecords |-> d2,
               currentRecords |-> c2,
               calls |-> st.calls \o a.calls,
               outs |-> a.outs]

\* Mutant (C25): a failed threshold flush also drops the record whose line
\* triggered it.
drainStep_dropTrigger(cfg, pipeline, record, flds, st) ==
    LET f == format(cfg, pipeline, record)
    IN  IF f.err # Nil
        THEN [st EXCEPT !.droppedRecords = Append(@, record),
                        !.errs = Append(@, f.err)]
        ELSE
          LET a == appendAndSend(cfg, f.line, record.pos, pipeline, st.b, flds,
                                 st.outs)
              d1 == IF a.err # Nil /\ a.ar.sent
                    THEN st.droppedRecords \o st.currentRecords
                    ELSE st.droppedRecords
              d2 == IF a.err # Nil /\ (a.ar.sent \/ ~a.ar.appended)
                    THEN Append(d1, record) ELSE d1
              c1 == IF a.ar.sent THEN <<>> ELSE st.currentRecords
              c2 == IF a.ar.appended THEN Append(c1, record) ELSE c1
          IN  [b |-> a.b,
               errs |-> st.errs \o a.err,   \* multierr flattens a combined error
               droppedRecords |-> d2,
               currentRecords |-> c2,
               calls |-> st.calls \o a.calls,
               outs |-> a.outs]

\* Mutant (C26): after a first failure the remaining records are skipped.
drainStep_stopOnFailure(cfg, pipeline, record, flds, st) ==
    LET f == format(cfg, pipeline, record)
    IN  IF f.err # Nil
        THEN [st EXCEPT !.droppedRecords = Append(@, record),
                        !.errs = Append(@, f.err)]
        ELSE
          LET a == appendAndSend(cfg, f.line, record.pos, pipeline, st.b, flds,
                                 st.outs)
              d1 == IF a.err # Nil /\ a.ar.sent
                    THEN st.droppedRecords \o st.currentRecords
                    ELSE st.droppedRecords
              d2 == IF a.err # Nil /\ ~a.ar.appended
                    THEN Append(d1, record) ELSE d1
              c1 == IF a.ar.sent THEN <<>> ELSE st.currentRecords
              c2 == IF a.ar.appended THEN Append(c1, record) ELSE c1
          IN  IF st.errs # <<>> THEN st ELSE
              [b |-> a.b,
               errs |-> st.errs \o a.err,   \* multierr flattens a combined error
               droppedRecords |-> d2,
               currentRecords |-> c2,
               calls |-> st.calls \o a.calls,
               outs |-> a.outs]

\* One iteration of the loop of sendLogs / sendMetrics.
drainStep(cfg, pipeline, record, flds, st) ==
    LET f == format(cfg, pipeline, record)
    IN  IF f.err # Nil
        THEN [st EXCEPT !.droppedRecords = Append(@, record),
                        !.errs = Append(@, f.err)]
        ELSE
          LET a == appendAndSend(cfg, f.line, record.pos, pipeline, st.b, flds,
                                 st.outs)
              d1 == IF a.err # Nil /\ a.ar.sent
                    THEN st.droppedRecords \o st.currentRecords
                    ELSE st.droppedRecords
              d2 == IF a.err # Nil /\ ~a.ar.appended
                    THEN Append(d1, record) ELSE d1
              c1 == IF a.ar.sent THEN <<>> ELSE st.currentRecords
              c2 == IF a.ar.appended THEN Append(c1, record) ELSE c1
          IN  [b |-> a.b,
               errs |-> st.errs \o a.err,   \* multierr flattens a combined error
               droppedRecords |-> d2,
               currentRecords |-> c2,
               calls |-> st.calls \o a.calls,
               outs |-> a.outs]

RECURSIVE drainLoop(_, _, _, _, _)
drainLoop(cfg, pipeline, buffer, flds, st) ==
    IF buffer = <<>> THEN st
    ELSE drainLoop(cfg, pipeline, Tail(buffer), flds,
                   drainStep(cfg, pipeline, Head(buffer), flds, st))

\* Mutant (C2): a failed trailing flush reports its error but drops nothing.
drainEnd_noDrop(cfg, pipeline, flds, st) ==
    LET flush == Len(st.b.body) > 0
        sd == IF flush
              THEN send(cfg, pipeline, st.b.body, st.b.recs, flds,
                        Head(st.outs))
              ELSE [err |-> Nil, calls |-> <<>>]
        errs == IF sd.err # Nil THEN Append(st.errs, sd.err) ELSE st.errs
    IN  [dropped |-> st.droppedRecords, err |-> Combine(errs),
         calls |-> st.calls \o sd.calls]

\* Mutant (C32): a failed trailing flush drops its records but its error is
\* not reported.
drainEnd_silent(cfg, pipeline, flds, st) ==
    LET flush == Len(st.b.body) > 0
        sd == IF flush
              THEN send(cfg, pipeline, st.b.body, st.b.recs, flds,
                        Head(st.outs))
              ELSE [err |-> Nil, calls |-> <<>>]
        dropped == IF sd.err # Nil
                   THEN st.droppedRecords \o st.currentRecords
                   ELSE st.droppedRecords
    IN  [dropped |-> dropped, err |-> Combine(st.errs),
         calls |-> st.calls \o sd.calls]

\* The trailing flush and the return of sendLogs / sendMetrics.
drainEnd(cfg, pipeline, flds, st) ==
    LET flush == Len(st.b.body) > 0
        sd == IF flush
              THEN send(cfg, pipeline, st.b.body, st.b.recs, flds,
                        Head(st.outs))
              ELSE [err |-> Nil, calls |-> <<>>]
        errs == IF sd.err # Nil THEN Append(st.errs, sd.err) ELSE st.errs
        dropped == IF sd.err # Nil
                   THEN st.droppedRecords \o st.currentRecords
                   ELSE st.droppedRecords
    IN  [dropped |-> dropped, err |-> Combine(errs),
         calls |-> st.calls \o sd.calls]

marshalLogs(buffer) == <<OTLPTag>> \o [i \in 1..Len(buffer) |-> buffer[i].pos]

marshalMetrics(buffer) == [i \in 1..Len(buffer) |-> buffer[i].pos]

marshalTraces(td) == <<OTLPTag>> \o [i \in 1..td |-> i]

Positions(buffer) == [i \in 1..Len(buffer) |-> buffer[i].pos]

\* Mutant (C13): a failed request drops nothing.
sendOTLP_dropNothing(cfg, pipeline, buffer, body, flds, outs) ==
    IF ~MarshalOk
    THEN [dropped |-> buffer, err |-> <<<<"marshal">>>>, calls |-> <<>>]
    ELSE LET sd == send(cfg, pipeline, body, Positions(buffer), flds,
                       Head(outs))
         IN  IF sd.err # Nil
             THEN [dropped |-> <<>>, err |-> <<sd.err>>, calls |-> sd.calls]
             ELSE [dropped |-> <<>>, err |-> Nil, calls |-> sd.calls]

\* sendOTLPLogs / sendOTLPMetrics: one payload, one request.
sendOTLP(cfg, pipeline, buffer, body, flds, outs) ==
    IF ~MarshalOk
    THEN [dropped |-> buffer, err |-> <<<<"marshal">>>>, calls |-> <<>>]
    ELSE LET sd == send(cfg, pipeline, body, Positions(buffer), flds,
                       Head(outs))
         IN  IF sd.err # Nil
             THEN [dropped |-> buffer, err |-> <<sd.err>>, calls |-> sd.calls]
             ELSE [dropped |-> <<>>, err |-> Nil, calls |-> sd.calls]

sendOTLPLogs(cfg, buffer, flds, outs) ==
    sendOTLP(cfg, LogsPipeline, buffer, marshalLogs(buffer), flds, outs)

sendOTLPMetrics(cfg, buffer, flds, outs) ==
    sendOTLP(cfg, MetricsPipeline, buffer, marshalMetrics(buffer), flds, outs)

sendLogs(cfg, buffer, flds, outs) ==
    IF cfg.LogFormat = OTLPLogFormat THEN sendOTLPLogs(cfg, buffer, flds, outs)
    ELSE drainEnd(cfg, LogsPipeline, flds,
                  drainLoop(cfg, LogsPipeline, buffer, flds, DrainStart(outs)))

sendMetrics(cfg, buffer, flds, outs) ==
    IF cfg.MetricFormat = OTLPMetricFormat
    THEN sendOTLPMetrics(cfg, buffer, flds, outs)
    ELSE drainEnd(cfg, MetricsPipeline, flds,
                  drainLoop(cfg, MetricsPipeline, buffer, flds, DrainStart(outs)))

sendTraces(cfg, td, flds, outs) ==
    IF cfg.TraceFormat = OTLPTraceFormat
    THEN LET sd == send(cfg, TracesPipeline, marshalTraces(td), <<>>, flds,
                       Head(outs))
         IN  [err |-> IF sd.err # Nil THEN <<sd.err>> ELSE Nil, calls |-> sd.calls]
    ELSE [err |-> Nil, calls |-> <<>>]

\* Mutant (C6): the drain starts one record early.
bufferFull_early(n) == n + 1 >= maxBufferSize

\* Mutant (C7): the drain waits for the push after the cap is reached.
bufferFull_late(n) == n > maxBufferSize

\* batchLog / batchMetric: the test made after the append.
bufferFull(n) == n >= maxBufferSize

\* Mutant (C8): the buffer is not truncated.
cleanLogsBuffer_keep(buffer) == buffer

\* s.logBuffer = (s.logBuffer)[:0]
cleanLogsBuffer(buffer) == <<>>

\* s.metricBuffer = (s.metricBuffer)[:0]
cleanMetricBuffer(buffer) == <<>>

(* ------------------------------ actions -------------------------------- *)

NoRet == [op |-> "none", buf |-> <<>>, drained |-> FALSE,
          dropped |-> <<>>, err |-> Nil]

Unused == <<>>

AuxUnused ==
    /\ args = Unused
    /\ result = Unused
    /\ backing = Unused
    /\ held = Unused

Init ==
    /\ config \in Configs
    /\ logBuffer = <<>>
    /\ metricBuffer = <<>>
    /\ calls = <<>>
    /\ ret = NoRet
    /\ AuxUnused

Result(op, buf, r) ==
    [op |-> op, buf |-> buf, drained |-> TRUE, dropped |-> r.dropped, err |-> r.err]

Pushed(op, buf) ==
    [op |-> op, buf |-> buf, drained |-> FALSE, dropped |-> <<>>, err |-> Nil]

\* No operation is in progress and the last result has been taken: the
\* sender is used by one caller, one call at a time.
Idle == ret = NoRet /\ calls = <<>>

CanPush(own, other) ==
    other = <<>> \/ Len(own) + Len(other) < MaxMixed

\* The records a push may add at position p; a record json.Marshal rejects
\* is enumerated once, under the JSON format that reads the flag.
LogRecords(p) ==
    { Record(p, n, FALSE) : n \in 0..MaxLineLen }
    \cup (IF config.LogFormat = JSONFormat THEN {Record(p, 0, TRUE)} ELSE {})

MetricRecords(p) == { Record(p, n, FALSE) : n \in 0..MaxLineLen }

AllOK == [i \in 1..(maxBufferSize + 2) |-> PlainOK]

\* The number of requests a drain issues depends on the lines only, never
\* on the outcomes: the outcomes are drawn for exactly that many requests.
LogOutcomes(buf) == OutcomeSeqs(Len(sendLogs(config, buf, Metadata(config), AllOK).calls))

MetricOutcomes(buf) == OutcomeSeqs(Len(sendMetrics(config, buf, Metadata(config), AllOK).calls))

TraceOutcomes(td) == OutcomeSeqs(Len(sendTraces(config, td, Metadata(config), AllOK).calls))

\* Mutant (C31): batchLog drains the buffer before it appends the record.
BatchLog_drainFirst ==
    /\ Idle
    /\ CanPush(logBuffer, metricBuffer)
    /\ \E log \in LogRecords(Len(logBuffer) + 1) :
         IF bufferFull(Len(logBuffer) + 1)
         THEN \E outs \in LogOutcomes(logBuffer) :
                LET r == sendLogs(config, logBuffer, Metadata(config), outs)
                IN  /\ logBuffer' = <<[log EXCEPT !.pos = 1]>>
                    /\ calls' = r.calls
                    /\ ret' = Result("batchLog", logBuffer, r)
         ELSE /\ logBuffer' = Append(logBuffer, log)
              /\ calls' = <<>>
              /\ ret' = Pushed("batchLog", Append(logBuffer, log))
    /\ UNCHANGED <<config, metricBuffer>>
    /\ UNCHANGED aux

BatchLog ==
    /\ Idle
    /\ CanPush(logBuffer, metricBuffer)
    /\ \E log \in LogRecords(Len(logBuffer) + 1) :
         LET buf == Append(logBuffer, log)
         IN  IF bufferFull(Len(buf))
             THEN \E outs \in LogOutcomes(buf) :
                    LET r == sendLogs(config, buf, Metadata(config), outs)
                    IN  /\ logBuffer' = cleanLogsBuffer(buf)
                        /\ calls' = r.calls
                        /\ ret' = Result("batchLog", buf, r)
             ELSE /\ logBuffer' = buf
                  /\ calls' = <<>>
                  /\ ret' = Pushed("batchLog", buf)
    /\ UNCHANGED <<config, metricBuffer>>
    /\ UNCHANGED aux

BatchMetric ==
    /\ Idle
    /\ CanPush(metricBuffer, logBuffer)
    /\ \E metric \in MetricRecords(Len(metricBuffer) + 1) :
         LET buf == Append(metricBuffer, metric)
         IN  IF bufferFull(Len(buf))
             THEN \E outs \in MetricOutcomes(buf) :
                    LET r == sendMetrics(config, buf, Metadata(config), outs)
                    IN  /\ metricBuffer' = cleanMetricBuffer(buf)
                        /\ calls' = r.calls
                        /\ ret' = Result("batchMetric", buf, r)
             ELSE /\ metricBuffer' = buf
                  /\ calls' = <<>>
                  /\ ret' = Pushed("batchMetric", buf)
    /\ UNCHANGED <<config, logBuffer>>
    /\ UNCHANGED aux

SendLogs ==
    /\ Idle
    /\ \E outs \in LogOutcomes(logBuffer) :
         LET r == sendLogs(config, logBuffer, Metadata(config), outs)
         IN  /\ calls' = r.calls
             /\ ret' = Result("sendLogs", logBuffer, r)
    /\ UNCHANGED <<config, logBuffer, metricBuffer>>
    /\ UNCHANGED aux

SendMetrics ==
    /\ Idle
    /\ \E outs \in MetricOutcomes(metricBuffer) :
         LET r == sendMetrics(config, metricBuffer, Metadata(config), outs)
         IN  /\ calls' = r.calls
             /\ ret' = Result("sendMetrics", metricBuffer, r)
    /\ UNCHANGED <<config, logBuffer, metricBuffer>>
    /\ UNCHANGED aux

SendTraces ==
    /\ Idle
    /\ logBuffer = <<>> /\ metricBuffer = <<>>
    /\ \E td \in 0..MaxSpans : \E outs \in TraceOutcomes(td) :
         LET r == sendTraces(config, td, Metadata(config), outs)
         IN  /\ calls' = r.calls
             /\ ret' = [op |-> "sendTraces", buf |-> <<>>, drained |-> TRUE,
                        dropped |-> <<>>, err |-> r.err]
    /\ UNCHANGED <<config, logBuffer, metricBuffer>>
    /\ UNCHANGED aux

CleanLogsBuffer ==
    /\ Idle
    /\ logBuffer' = cleanLogsBuffer(logBuffer)
    /\ UNCHANGED <<config, metricBuffer, calls, ret>>
    /\ UNCHANGED aux

CleanMetricBuffer ==
    /\ Idle
    /\ metricBuffer' = cleanMetricBuffer(metricBuffer)
    /\ UNCHANGED <<config, logBuffer, calls, ret>>
    /\ UNCHANGED aux

\* The caller takes the result of the operation that just returned.
Return ==
    /\ ~Idle
    /\ calls' = <<>>
    /\ ret' = NoRet
    /\ UNCHANGED <<config, logBuffer, metricBuffer>>
    /\ UNCHANGED aux

Next ==
    \/ BatchLog
    \/ BatchMetric
    \/ SendLogs
    \/ SendMetrics
    \/ SendTraces
    \/ CleanLogsBuffer
    \/ CleanMetricBuffer
    \/ Return

Spec == Init /\ [][Next]_vars

(* ------------------- the response interpreter alone -------------------- *)

\* sendTraces under every response of RichOutcomes: one request whose
\* response goes through handleReceiverResponse.
SendTracesAnyResponse ==
    /\ Idle
    /\ \E td \in 0..MaxSpans : \E o \in RichOutcomes :
         LET r == sendTraces(config, td, Metadata(config), <<o>>)
         IN  /\ calls' = r.calls
             /\ ret' = [op |-> "sendTraces", buf |-> <<>>, drained |-> TRUE,
                        dropped |-> <<>>, err |-> r.err]
    /\ UNCHANGED <<config, logBuffer, metricBuffer>>
    /\ UNCHANGED aux

NextResponse == SendTracesAnyResponse \/ Return

SpecResponse == Init /\ [][NextResponse]_vars

(* ---------------------------- fields.string ---------------------------- *)

SenderUnused ==
    /\ config = Unused
    /\ logBuffer = <<>>
    /\ metricBuffer = <<>>
    /\ calls = <<>>
    /\ ret = NoRet

\* Keys and values of the attribute maps fields.string() is applied to: the
\* three source keys, plain keys and values, the empty value, and a key and
\* a value holding the characters the replacer rewrites.
AttributeKeys ==
    {<<"a">>, <<"b">>, <<"a", ",">>,
     attributeKeySourceCategory, attributeKeySourceHost, attributeKeySourceName}

AttributeValues == {<<>>, <<"1">>, <<"=", "\n">>}

DistinctKeys(attrs) ==
    \A i, j \in 1..Len(attrs) : attrs[i][1] = attrs[j][1] => i = j

AttributeMaps ==
    UNION { { attrs \in [1..n -> AttributeKeys \X AttributeValues] :
                DistinctKeys(attrs) } : n \in 0..MaxAttrs }

InitFields ==
    /\ args \in AttributeMaps
    /\ result = <<>>
    /\ SenderUnused
    /\ backing = Unused
    /\ held = Unused

\* newFields(attrMap).string()
FieldsStringCall ==
    /\ result = <<>>
    /\ result' = <<fieldsString(args)>>
    /\ UNCHANGED <<sender, args, backing, held>>

NextFields == FieldsStringCall

SpecFields == InitFields /\ [][NextFields]_vars

(* ------------------------------ logToJSON ------------------------------ *)

\* logToJSON at the level of the JSON document.  A pdata value is a string,
\* an int, a double or a map of such values, or null; a JSON value is a
\* string, a number, an object or null.  The line is the sequence of the
\* members json.Marshal writes, in ascending key order.

StringValue(str) == [type |-> "string", str |-> str, int |-> 0, members |-> <<>>]
IntValue(n) == [type |-> "int", str |-> <<>>, int |-> n, members |-> <<>>]
\* A double json.Marshal rejects (NaN, +Inf, -Inf).
NaNValue == [type |-> "double", str |-> <<"N", "a", "N">>, int |-> 0, members |-> <<>>]
NullValue == [type |-> "null", str |-> <<>>, int |-> 0, members |-> <<>>]
MapValue(members) == [type |-> "map", str |-> <<>>, int |-> 0, members |-> members]

LogKey == <<"l", "o", "g">>
TimestampKey == <<"t", "i", "m", "e", "s", "t", "a", "m", "p">>
NsPerMs == 1000000

AttrKeys(attrs) == { attrs[i][1] : i \in 1..Len(attrs) }

\* pdata.AttributeMap.Insert: adds the entry unless the key exists.
Insert(attrs, k, v) ==
    IF k \in AttrKeys(attrs) THEN attrs ELSE Append(attrs, <<k, v>>)

\* pdata.AttributeMap.Upsert: replaces the value of the key or adds the entry.
Upsert(attrs, k, v) ==
    IF k \in AttrKeys(attrs)
    THEN [i \in 1..Len(attrs) |-> IF attrs[i][1] = k THEN <<k, v>> ELSE attrs[i]]
    ELSE Append(attrs, <<k, v>>)

RECURSIVE InsertAll(_, _)
InsertAll(attrs, members) ==
    IF members = <<>> THEN attrs
    ELSE InsertAll(Insert(attrs, Head(members)[1], Head(members)[2]), Tail(members))

\* filter.filterOut: the attributes whose key no metadata expression of the
\* configuration matches.
filterOut(cfg, attrs) == SelectSeq(attrs, LAMBDA e : e[1] \notin cfg.metadataKeys)

\* The one key the translation to Sumo Logic names renames here.
TranslatedKey(k) == IF k = <<"c">> THEN <<"C">> ELSE k

\* translateAttributes: a new map with every key under its translated name.
RECURSIVE translateInto(_, _)
translateInto(translated, attrs) ==
    IF attrs = <<>> THEN translated
    ELSE translateInto(Insert(translated, TranslatedKey(Head(attrs)[1]), Head(attrs)[2]),
                       Tail(attrs))

translateAttributes(attrs) == translateInto(<<>>, attrs)

isEmptyAttributeValue(v) ==
    \/ v.type = "null"
    \/ v.type = "string" /\ v.str = <<>>
    \/ v.type = "map" /\ v.members = <<>>

\* addJSONTimestamp: the record's time in milliseconds, the current time
\* when the record has none; InsertInt keeps an existing entry.
addJSONTimestamp(attrs, timestampKey, pt, now) ==
    IF pt = 0
    THEN Insert(attrs, timestampKey, IntValue(now))
    ELSE Insert(attrs, timestampKey, IntValue(pt \div NsPerMs))

JSONString(str) == [kind |-> "string", str |-> str, num |-> 0, members |-> <<>>]
JSONNumber(n) == [kind |-> "number", str |-> <<>>, num |-> n, members |-> <<>>]
JSONNull == [kind |-> "null", str |-> <<>>, num |-> 0, members |-> <<>>]
JSONObject(members) == [kind |-> "object", str |-> <<>>, num |-> 0, members |-> members]

Encodable(v) ==
    /\ v.type # "double"
    /\ \A i \in 1..Len(v.members) : v.members[i][2].type # "double"

RECURSIVE insertMember(_, _)
insertMember(m, sorted) ==
    IF sorted = <<>> THEN <<m>>
    ELSE IF stringLess(Head(sorted)[1], m[1])
         THEN <<Head(sorted)>> \o insertMember(m, Tail(sorted))
         ELSE <<m>> \o sorted

\* encoding/json writes the members of a map in ascending key order.
RECURSIVE sortMembers(_)
sortMembers(members) ==
    IF members = <<>> THEN <<>>
    ELSE insertMember(Head(members), sortMembers(Tail(members)))

marshalScalar(v) ==
    CASE v.type = "string" -> JSONString(v.str)
      [] v.type = "int" -> JSONNumber(v.int)
      [] OTHER -> JSONNull

marshalValue(v) ==
    IF v.type = "map"
    THEN JSONObject(sortMembers(
             [i \in 1..Len(v.members) |->
                 <<v.members[i][1], marshalScalar(v.members[i][2])>>]))
    ELSE marshalScalar(v)

\* json.Marshal(data.orig.AsRaw())
jsonMarshal(attrs) ==
    IF \E i \in 1..Len(attrs) : ~Encodable(attrs[i][2])
    THEN [line |-> <<>>, err |-> <<"json: unsupported value">>]
    ELSE [line |-> sortMembers([i \in 1..Len(attrs) |->
                                   <<attrs[i][1], marshalValue(attrs[i][2])>>]),
          err |-> Nil]

\* The attributes logToJSON marshals.
\* The attributes logToJSON has before it adds the body.
jsonData(cfg, record) ==
    LET filtered == filterOut(cfg, record.attributes)
        stamped == IF cfg.AddTimestamp
                   THEN addJSONTimestamp(filtered, cfg.TimestampKey,
                                         record.timestamp, record.now)
                   ELSE filtered
    IN  IF cfg.TranslateAttributes THEN translateAttributes(stamped)
        ELSE stamped

\* Mutant (C22): the body is inserted under the log key, never replacing
\* an attribute.
logToJSONData_insertBody(cfg, record) ==
    jsonMarshal(IF isEmptyAttributeValue(record.body) THEN jsonData(cfg, record)
                ELSE IF cfg.FlattenBody /\ record.body.type = "map"
                THEN InsertAll(jsonData(cfg, record), record.body.members)
                ELSE Insert(jsonData(cfg, record), cfg.LogKey, record.body))

logToJSONData(cfg, record) ==
    jsonMarshal(IF isEmptyAttributeValue(record.body) THEN jsonData(cfg, record)
                ELSE IF cfg.FlattenBody /\ record.body.type = "map"
                THEN InsertAll(jsonData(cfg, record), record.body.members)
                ELSE Upsert(jsonData(cfg, record), cfg.LogKey, record.body))

JSONConfigs ==
    { [AddTimestamp |-> at, TimestampKey |-> TimestampKey, LogKey |-> LogKey,
       FlattenBody |-> fb, TranslateAttributes |-> ta, metadataKeys |-> mk] :
      at \in BOOLEAN, fb \in BOOLEAN, ta \in BOOLEAN, mk \in {{}, {<<"a">>}} }

JSONAttrKeys == {<<"a">>, <<"c">>, LogKey, TimestampKey}

JSONAttrValues == {StringValue(<<"1">>), IntValue(2), NaNValue}

JSONAttributes ==
    UNION { { attrs \in [1..n -> JSONAttrKeys \X JSONAttrValues] :
                DistinctKeys(attrs) } : n \in 0..MaxJSONAttrs }

JSONBodies ==
    {NullValue, StringValue(<<"2">>),
     MapValue(<< <<<<"a">>, IntValue(2)>> >>),
     MapValue(<< <<<<"m">>, StringValue(<<"1">>)>> >>)}

\* Record times in nanoseconds: none, and one and a half milliseconds.
JSONTimestamps == {0, NsPerMs + (NsPerMs \div 2)}

\* time.Now().UnixMilli()
JSONNow == 3

JSONRecords ==
    { [attributes |-> a, body |-> b, timestamp |-> t, now |-> JSONNow] :
      a \in JSONAttributes, b \in JSONBodies, t \in JSONTimestamps }

InitJSON ==
    /\ args \in [cfg : JSONConfigs, record : JSONRecords]
    /\ result = <<>>
    /\ SenderUnused
    /\ backing = Unused
    /\ held = Unused

LogToJSONCall ==
    /\ result = <<>>
    /\ result' = <<logToJSONData(args.cfg, args.record)>>
    /\ UNCHANGED <<sender, args, backing, held>>

NextJSON == LogToJSONCall

SpecJSON == InitJSON /\ [][NextJSON]_vars

(* ----------------------------- metric cache ---------------------------- *)

\* The metric cache of the metric frequency processor, as its tests use it:
\* args is the list of the Register calls made so far, result holds the
\* cache, a map from metric names to maps from timestamps to values.

emptyResult == <<>>

newCache == <<>>

newDataPoint(timestamp, value) == [timestamp |-> timestamp, value |-> value]

\* Mutant (C23): Register keeps only the newest point of a metric.
Register_newestOnly(internalCaches, name, dataPoint) ==
    [n \in DOMAIN internalCaches \cup {name} |->
        IF n = name THEN (dataPoint.timestamp :> dataPoint.value)
        ELSE internalCaches[n]]

Register(internalCaches, name, dataPoint) ==
    [n \in DOMAIN internalCaches \cup {name} |->
        IF n = name
        THEN LET old == IF name \in DOMAIN internalCaches THEN internalCaches[name]
                        ELSE emptyResult
             IN  [t \in DOMAIN old \cup {dataPoint.timestamp} |->
                     IF t = dataPoint.timestamp THEN dataPoint.value ELSE old[t]]
        ELSE internalCaches[n]]

List(internalCaches, name) ==
    IF name \in DOMAIN internalCaches THEN internalCaches[name] ELSE emptyResult

MetricNames == {"a", "b"}
CacheTimestamps == {0, 1}
CacheValues == {0, 1}

InitCache ==
    /\ args = <<>>
    /\ result = <<newCache>>
    /\ SenderUnused
    /\ backing = Unused
    /\ held = Unused

RegisterCall ==
    /\ Len(args) < MaxRegisters
    /\ \E name \in MetricNames, t \in CacheTimestamps, v \in CacheValues :
         /\ args' = Append(args, [name |-> name, point |-> newDataPoint(t, v)])
         /\ result' = <<Register(result[1], name, newDataPoint(t, v))>>
    /\ UNCHANGED <<sender, backing, held>>

NextCache == RegisterCall

SpecCache == InitCache /\ [][NextCache]_vars

(* ----------------------- source processor: logs ------------------------ *)

\* ProcessLogs of the source processor over the log records of one call, in
\* the order its loops visit them.  A body is of string type or not; a
\* string body is plain text or a JSON object, of which the keys stream,
\* time and log are followed: each absent, a string, or a number.

Absent == [present |-> "absent", val |-> <<>>]
JSONStr(chars) == [present |-> "string", val |-> chars]
JSONNum == [present |-> "number", val |-> <<"5">>]

TextBody(chars) ==
    [type |-> "string", kind |-> "text", text |-> chars,
     stream |-> Absent, time |-> Absent, log |-> Absent]

DocBody(stream, time, log) ==
    [type |-> "string", kind |-> "doc", text |-> <<>>,
     stream |-> stream, time |-> time, log |-> log]

MapBody ==
    [type |-> "map", kind |-> "text", text |-> <<>>,
     stream |-> Absent, time |-> Absent, log |-> Absent]

\* var dockerLog dockerLog
ZeroDockerLog == [Stream |-> <<>>, Time |-> <<>>, Log |-> <<>>]

\* json.Unmarshal into one string field of the struct: a string is stored,
\* an absent key leaves the field as it is, any other value leaves it as it
\* is and makes Unmarshal return an UnmarshalTypeError.
unmarshalField(field, current) ==
    IF field.present = "string" THEN field.val ELSE current

\* err := json.Unmarshal([]byte(log.Body().StringVal()), &dockerLog)
jsonUnmarshal(body, dockerLog) ==
    IF body.kind # "doc"
    THEN [err |-> TRUE, dockerLog |-> dockerLog]
    ELSE [err |-> "number" \in {body.stream.present, body.time.present, body.log.present},
          dockerLog |-> [Stream |-> unmarshalField(body.stream, dockerLog.Stream),
                         Time |-> unmarshalField(body.time, dockerLog.Time),
                         Log |-> unmarshalField(body.log, dockerLog.Log)]]

IsSpace(c) == c \in {" ", "\n"}

RECURSIVE TrimLeft(_)
TrimLeft(chars) ==
    IF chars # <<>> /\ IsSpace(Head(chars)) THEN TrimLeft(Tail(chars)) ELSE chars

RECURSIVE TrimRight(_)
TrimRight(chars) ==
    IF chars # <<>> /\ IsSpace(chars[Len(chars)])
    THEN TrimRight(SubSeq(chars, 1, Len(chars) - 1))
    ELSE chars

\* strings.TrimSpace
TrimSpace(chars) == TrimRight(TrimLeft(chars))

UpsertString(attrs, k, str) == Upsert(attrs, k, str)

\* The body of the innermost loop: the record as ProcessLogs leaves it and
\* dockerLog as the next record finds it.
processLog(log, dockerLog) ==
    IF log.body.type = "string"
    THEN LET u == jsonUnmarshal(log.body, dockerLog)
             d == u.dockerLog
         IN  IF u.err \/ d.Stream = <<>> \/ d.Time = <<>> \/ d.Log = <<>>
             THEN [log |-> log, dockerLog |-> d]
             ELSE [log |-> [attributes |->
                               UpsertString(UpsertString(log.attributes, "stream", d.Stream),
                                            "time", d.Time),
                            body |-> TextBody(TrimSpace(d.Log))],
                   dockerLog |-> d]
    ELSE [log |-> log, dockerLog |-> dockerLog]

RECURSIVE processLogsFrom(_, _)
processLogsFrom(logs, dockerLog) ==
    IF logs = <<>> THEN <<>>
    ELSE LET p == processLog(Head(logs), dockerLog)
         IN  <<p.log>> \o processLogsFrom(Tail(logs), p.dockerLog)

ProcessLogs(logs) == processLogsFrom(logs, ZeroDockerLog)

LogBodies ==
    {MapBody, TextBody(<<"x">>)}
    \cup { DocBody(s, t, l) :
             s \in {Absent, JSONStr(<<"o", "u", "t">>)},
             t \in {Absent, JSONStr(<<>>), JSONStr(<<"t">>)},
             l \in {Absent, JSONNum, JSONStr(<<" ", "l", "\n">>)} }

LogAttributes == {<<>>, << <<"stream", <<"e", "r", "r">> >> >>}

ProcessedLogs ==
    UNION { [1..n -> [attributes : LogAttributes, body : LogBodies]] : n \in 0..MaxLogs }

InitProcessLogs ==
    /\ args \in ProcessedLogs
    /\ result = <<>>
    /\ SenderUnused
    /\ backing = Unused
    /\ held = Unused

ProcessLogsCall ==
    /\ result = <<>>
    /\ result' = <<ProcessLogs(args)>>
    /\ UNCHANGED <<sender, args, backing, held>>

NextProcessLogs == ProcessLogsCall

SpecProcessLogs == InitProcessLogs /\ [][NextProcessLogs]_vars

(* --------------------------- one drain alone --------------------------- *)

\* sendLogs / sendMetrics on every buffer batchLog / batchMetric can hand
\* them (up to maxBufferSize records), with every outcome of each request.

\* The buffers of up to maxBufferSize records, the record at each position
\* being one of first with its own position.
BuffersOf(first) ==
    UNION { { [p \in 1..n |-> [shape[p] EXCEPT !.pos = p]] : shape \in [1..n -> first] } :
            n \in 0..maxBufferSize }

InitDrain ==
    /\ config \in Configs
    /\ \/ logBuffer \in BuffersOf(LogRecords(1)) /\ metricBuffer = <<>>
       \/ logBuffer = <<>> /\ metricBuffer \in BuffersOf(MetricRecords(1))
    /\ calls = <<>>
    /\ ret = NoRet
    /\ AuxUnused

NextDrain ==
    \/ SendLogs
    \/ SendMetrics
    \/ Return

SpecDrain == InitDrain /\ [][NextDrain]_vars

(* ---------------------- source processor: filter ----------------------- *)

\* isFilteredOut over the attributes of one resource.  An attribute key is
\* a sequence of string pieces (the annotation prefix followed by the
\* annotation name, or one piece), a string value a sequence of characters.
\* An exclusion expression is one character and matches the strings that
\* hold it, as an unanchored regular expression does.

includeAnnotation == "sumologic.com/include"
excludeAnnotation == "sumologic.com/exclude"

StringAttr(chars) == [type |-> "string", str |-> chars, bool |-> FALSE]
BoolAttr(b) == [type |-> "bool", str |-> <<>>, bool |-> b]
\* An attribute that is neither a string nor a bool; its StringVal() is "".
IntAttr == [type |-> "int", str |-> <<>>, bool |-> FALSE]

True == <<"t", "r", "u", "e">>
False == <<"f", "a", "l", "s", "e">>

\* atts.Get(key)
Get(atts, key) ==
    IF key \in AttrKeys(atts)
    THEN [found |-> TRUE,
          value |-> atts[CHOOSE i \in 1..Len(atts) : atts[i][1] = key][2]]
    ELSE [found |-> FALSE, value |-> IntAttr]

annotationAttribute(sp, annotationKey) == sp.keys.annotationPrefix \o <<annotationKey>>

\* regexp.MatchString
MatchString(r, v) == \E i \in 1..Len(v) : v[i] = r

matchFieldByRegex(atts, field, r) ==
    LET att == Get(atts, field)
    IN  IF ~att.found THEN [v |-> <<>>, ok |-> FALSE]
        ELSE IF att.value.type # "string" THEN [v |-> <<>>, ok |-> FALSE]
        ELSE [v |-> att.value.str, ok |-> MatchString(r, att.value.str)]

\* The test isFilteredOut makes of the exclude and of the include annotation.
annotationIsTrue(atts, key) ==
    LET got == Get(atts, key)
    IN  /\ got.found
        /\ \/ got.value.type = "string" /\ got.value.str = True
           \/ got.value.type = "bool" /\ got.value.bool

\* Mutant (C27): the include annotation is looked at before the exclude
\* annotation.
isFilteredOut_includeFirst(sp, atts) ==
    IF annotationIsTrue(atts, annotationAttribute(sp, includeAnnotation)) THEN FALSE
    ELSE IF annotationIsTrue(atts, annotationAttribute(sp, excludeAnnotation)) THEN TRUE
    ELSE \E field \in DOMAIN sp.exclude :
            matchFieldByRegex(atts, field, sp.exclude[field]).ok

isFilteredOut(sp, atts) ==
    IF annotationIsTrue(atts, annotationAttribute(sp, excludeAnnotation)) THEN TRUE
    ELSE IF annotationIsTrue(atts, annotationAttribute(sp, includeAnnotation)) THEN FALSE
    ELSE \E field \in DOMAIN sp.exclude :
            matchFieldByRegex(atts, field, sp.exclude[field]).ok

AnnotationPrefix == <<"k8s.pod.annotation.">>

ExcludedFields == {<<"f">>, <<"g">>}

SourceProcessors ==
    { [keys |-> [annotationPrefix |-> AnnotationPrefix], exclude |-> e] :
      e \in UNION { [fs -> {"x", "y"}] : fs \in SUBSET ExcludedFields } }

AnnotationValues ==
    {StringAttr(True), StringAttr(False), BoolAttr(TRUE), BoolAttr(FALSE), IntAttr}

FieldValues == {StringAttr(<<"x">>), StringAttr(<<"a", "y">>), IntAttr}

\* The entry of a key in an attribute map: none, or the key with its value.
Entries(key, values) == {<<>>} \cup { << <<key, v>> >> : v \in values }

FilterAttributes ==
    { ex \o inc \o f \o g :
        ex \in Entries(AnnotationPrefix \o <<excludeAnnotation>>, AnnotationValues),
        inc \in Entries(AnnotationPrefix \o <<includeAnnotation>>, AnnotationValues),
        f \in Entries(<<"f">>, FieldValues),
        g \in Entries(<<"g">>, FieldValues) }

InitFilter ==
    /\ args \in [sp : SourceProcessors, atts : FilterAttributes]
    /\ result = <<>>
    /\ SenderUnused
    /\ backing = Unused
    /\ held = Unused

IsFilteredOutCall ==
    /\ result = <<>>
    /\ result' = <<isFilteredOut(args.sp, args.atts)>>
    /\ UNCHANGED <<sender, args, backing, held>>

NextFilter == IsFilteredOutCall

SpecFilter == InitFilter /\ [][NextFilter]_vars

(* --------------------- source processor: pod name ---------------------- *)

\* enrichPodName over the attributes of one resource; pod names and hashes
\* are sequences of characters.

alphanums ==
    <<"b", "c", "d", "f", "g", "h", "j", "k", "l", "m", "n", "p", "q", "r",
      "s", "t", "v", "w", "x", "z", "2", "4", "5", "6", "7", "8", "9">>

\* int(b) for the characters of the model's pod names and hashes.
RuneValue == ("-" :> 45) @@ ("5" :> 53) @@ ("9" :> 57) @@ ("a" :> 97) @@ ("v" :> 118)

SafeEncodeString(s) ==
    [i \in 1..Len(s) |-> alphanums[(RuneValue[s[i]] % Len(alphanums)) + 1]]

\* strings.Split(s, sep) for a separator of one character.
RECURSIVE stringsSplit(_, _)
stringsSplit(s, sep) ==
    IF \A i \in 1..Len(s) : s[i] # sep THEN <<s>>
    ELSE LET k == CHOOSE i \in 1..Len(s) :
                    s[i] = sep /\ \A j \in 1..(i - 1) : s[j] # sep
         IN  <<SubSeq(s, 1, k - 1)>> \o stringsSplit(SubSeq(s, k + 1, Len(s)), sep)

\* StringVal(): the string of a string attribute, "" for any other type.
StringVal(att) == IF att.type = "string" THEN att.str ELSE <<>>

\* Mutant (C28): the segment is compared with the hash as it is only.
enrichPodName_rawHashOnly(sp, atts) ==
    LET pod == Get(atts, sp.keys.podKey)
    IN  IF ~pod.found THEN atts
        ELSE
          LET podParts == stringsSplit(StringVal(pod.value), "-")
              n == Len(podParts)
              podTemplateHashAttr == Get(atts, sp.keys.podTemplateHashKey)
              podTemplateHash == StringVal(podTemplateHashAttr.value)
          IN  IF n < 2 THEN atts
              ELSE IF /\ podTemplateHashAttr.found
                      /\ n > 2
                      /\ podTemplateHash = podParts[n - 1]
              THEN Upsert(atts, sp.keys.podNameKey,
                          StringAttr(stringsJoin(SubSeq(podParts, 1, n - 2), <<"-">>)))
              ELSE Upsert(atts, sp.keys.podNameKey,
                          StringAttr(stringsJoin(SubSeq(podParts, 1, n - 1), <<"-">>)))

enrichPodName(sp, atts) ==
    LET pod == Get(atts, sp.keys.podKey)
    IN  IF ~pod.found THEN atts
        ELSE
          LET podParts == stringsSplit(StringVal(pod.value), "-")
              n == Len(podParts)
              podTemplateHashAttr == Get(atts, sp.keys.podTemplateHashKey)
              podTemplateHash == StringVal(podTemplateHashAttr.value)
          IN  IF n < 2 THEN atts
              ELSE IF /\ podTemplateHashAttr.found
                      /\ n > 2
                      /\ \/ podTemplateHash = podParts[n - 1]
                         \/ SafeEncodeString(podTemplateHash) = podParts[n - 1]
              THEN Upsert(atts, sp.keys.podNameKey,
                          StringAttr(stringsJoin(SubSeq(podParts, 1, n - 2), <<"-">>)))
              ELSE Upsert(atts, sp.keys.podNameKey,
                          StringAttr(stringsJoin(SubSeq(podParts, 1, n - 1), <<"-">>)))

PodKeys ==
    [keys |-> [podKey |-> <<"pod">>, podNameKey |-> <<"pod_name">>,
               podTemplateHashKey |-> <<"pod_labels_pod-template-hash">>]]

PodChars == {"-", "5", "9", "a"}

PodNames == UNION { [1..n -> PodChars] : n \in 0..MaxPodLen }

PodValues == { StringAttr(s) : s \in PodNames } \cup {IntAttr}

HashValues == { StringAttr(s) : s \in {<<>>, <<"5">>, <<"9">>, <<"a">>} } \cup {IntAttr}

PodAttributes ==
    { pod \o hash \o name :
        pod \in Entries(PodKeys.keys.podKey, PodValues),
        hash \in Entries(PodKeys.keys.podTemplateHashKey, HashValues),
        name \in Entries(PodKeys.keys.podNameKey, {StringAttr(<<"a">>)}) }

InitPodName ==
    /\ args \in [sp : {PodKeys}, atts : PodAttributes]
    /\ result = <<>>
    /\ SenderUnused
    /\ backing = Unused
    /\ held = Unused

EnrichPodNameCall ==
    /\ result = <<>>
    /\ result' = <<enrichPodName(args.sp, args.atts)>>
    /\ UNCHANGED <<sender, args, backing, held>>

NextPodName == EnrichPodNameCall

SpecPodName == InitPodName /\ [][NextPodName]_vars

(* ------------------ buffers and returned dropped lists ----------------- *)

\* The sender with the memory of its two buffers.  logBuffer and
\* metricBuffer are slices: backing holds the backing array of each, of
\* which the buffer is the prefix.  held is the dropped list the last drain
\* returned, kept by the caller, for as long as it is the first n elements
\* of a backing array, which is when the drain returned the buffer itself;
\* returned is what it held at the return.  A list with an array of its own
\* is out of the sender's reach and is not followed.  A slot that neither
\* the buffer nor the held list reaches cannot be read any more and is
\* shown as the zero value.

\* The zero value of logPair / metricPair in a slot never written.
ZeroPair == Record(0, 0, FALSE)

NoBacking == [logs |-> <<>>, metrics |-> <<>>]

NoHeld == [returned |-> <<>>, of |-> "none", n |-> 0]

\* The capacity append gives the new array of a full slice of small
\* elements: one slot for the empty slice, twice the old capacity after.
grownCap(cap) == IF cap = 0 THEN 1 ELSE 2 * cap

\* append(buffer, pair) on the slice of length len over array: in place
\* when the capacity allows, into a new array otherwise.
appendTo(array, len, pair) ==
    IF len < Len(array)
    THEN [array |-> [array EXCEPT ![len + 1] = pair], moved |-> FALSE]
    ELSE [array |-> SubSeq(array, 1, len) \o <<pair>>
                    \o [i \in 1..(grownCap(Len(array)) - len - 1) |-> ZeroPair],
          moved |-> TRUE]

\* The array with the slots no slice reaches shown as the zero value: the
\* buffer reaches its first len slots, the list h the first h.n slots of
\* the array it shares.
reachable(array, len, which, h) ==
    [i \in 1..Len(array) |->
        IF i <= len \/ (h.of = which /\ i <= h.n) THEN array[i] ELSE ZeroPair]

\* What the holder of the dropped list reads now.
ReadHeld ==
    CASE held.of = "logs" -> SubSeq(backing.logs, 1, held.n)
      [] held.of = "metrics" -> SubSeq(backing.metrics, 1, held.n)
      [] OTHER -> held.returned

\* The dropped list a drain returns: the buffer itself from sendOTLPLogs /
\* sendOTLPMetrics on an error, a list of its own from the line-oriented
\* drains, nil otherwise.
returnedList(which, otlp, r) ==
    IF otlp /\ r.err # Nil /\ r.dropped # <<>>
    THEN [returned |-> r.dropped, of |-> which, n |-> Len(r.dropped)]
    ELSE NoHeld

\* The held list after an append that did not drain: the list stays with
\* the old array when the buffer moved to a new one.
heldAfterAppend(which, moved) ==
    IF moved /\ held.of = which THEN NoHeld ELSE held

\* The configurations with an OTLP buffer; the other signal of each is
\* drained line by line.
AliasConfigs ==
    { c \in Configs : c.LogFormat = OTLPLogFormat \/ c.MetricFormat = OTLPMetricFormat }

InitAlias ==
    /\ config \in AliasConfigs
    /\ logBuffer = <<>>
    /\ metricBuffer = <<>>
    /\ calls = <<>>
    /\ ret = NoRet
    /\ args = Unused
    /\ result = Unused
    /\ backing = NoBacking
    /\ held = NoHeld

\* Two records per position, so that a slot written again can be told from
\* what it held before.
AliasRecords(p) == { Record(p, n, FALSE) : n \in 0..1 }

\* Every request of a drain succeeds or fails in the network.
AliasOutcomes(r) == [1..Len(r.calls) -> {PlainOK, DoError}]

\* The two arrays after an operation that leaves the log buffer over array
\* and the metric buffer where it was.
logsOver(array) ==
    [logs |-> reachable(array, Len(logBuffer'), "logs", held'),
     metrics |-> reachable(backing.metrics, Len(metricBuffer'), "metrics", held')]

metricsOver(array) ==
    [logs |-> reachable(backing.logs, Len(logBuffer'), "logs", held'),
     metrics |-> reachable(array, Len(metricBuffer'), "metrics", held')]

BatchLogInMemory ==
    /\ Idle
    /\ CanPush(logBuffer, metricBuffer)
    /\ \E log \in AliasRecords(Len(logBuffer) + 1) :
         LET buf == Append(logBuffer, log)
             a == appendTo(backing.logs, Len(logBuffer), log)
         IN  /\ IF bufferFull(Len(buf))
                THEN \E outs \in AliasOutcomes(sendLogs(config, buf, Metadata(config), AllOK)) :
                       LET r == sendLogs(config, buf, Metadata(config), outs)
                       IN  /\ logBuffer' = cleanLogsBuffer(buf)
                           /\ calls' = r.calls
                           /\ ret' = Result("batchLog", buf, r)
                           /\ held' = returnedList("logs", config.LogFormat = OTLPLogFormat, r)
                ELSE /\ logBuffer' = buf
                     /\ calls' = <<>>
                     /\ ret' = Pushed("batchLog", buf)
                     /\ held' = heldAfterAppend("logs", a.moved)
             /\ UNCHANGED <<config, metricBuffer, args, result>>
             /\ backing' = logsOver(a.array)

BatchMetricInMemory ==
    /\ Idle
    /\ CanPush(metricBuffer, logBuffer)
    /\ \E metric \in AliasRecords(Len(metricBuffer) + 1) :
         LET buf == Append(metricBuffer, metric)
             a == appendTo(backing.metrics, Len(metricBuffer), metric)
         IN  /\ IF bufferFull(Len(buf))
                THEN \E outs \in AliasOutcomes(sendMetrics(config, buf, Metadata(config), AllOK)) :
                       LET r == sendMetrics(config, buf, Metadata(config), outs)
                       IN  /\ metricBuffer' = cleanMetricBuffer(buf)
                           /\ calls' = r.calls
                           /\ ret' = Result("batchMetric", buf, r)
                           /\ held' = returnedList("metrics", config.MetricFormat = OTLPMetricFormat, r)
                ELSE /\ metricBuffer' = buf
                     /\ calls' = <<>>
                     /\ ret' = Pushed("batchMetric", buf)
                     /\ held' = heldAfterAppend("metrics", a.moved)
             /\ UNCHANGED <<config, logBuffer, args, result>>
             /\ backing' = metricsOver(a.array)

SendLogsInMemory ==
    /\ Idle
    /\ \E outs \in AliasOutcomes(sendLogs(config, logBuffer, Metadata(config), AllOK)) :
         LET r == sendLogs(config, logBuffer, Metadata(config), outs)
         IN  /\ calls' = r.calls
             /\ ret' = Result("sendLogs", logBuffer, r)
             /\ held' = returnedList("logs", config.LogFormat = OTLPLogFormat, r)
    /\ UNCHANGED <<config, logBuffer, metricBuffer, args, result>>
    /\ backing' = logsOver(backing.logs)

SendMetricsInMemory ==
    /\ Idle
    /\ \E outs \in AliasOutcomes(sendMetrics(config, metricBuffer, Metadata(config), AllOK)) :
         LET r == sendMetrics(config, metricBuffer, Metadata(config), outs)
         IN  /\ calls' = r.calls
             /\ ret' = Result("sendMetrics", metricBuffer, r)
             /\ held' = returnedList("metrics", config.MetricFormat = OTLPMetricFormat, r)
    /\ UNCHANGED <<config, logBuffer, metricBuffer, args, result>>
    /\ backing' = metricsOver(backing.metrics)

\* s.logBuffer = (s.logBuffer)[:0]: the array stays.
CleanLogsBufferInMemory ==
    /\ Idle
    /\ logBuffer' = cleanLogsBuffer(logBuffer)
    /\ UNCHANGED <<config, metricBuffer, calls, ret, args, result, held>>
    /\ backing' = logsOver(backing.logs)

CleanMetricBufferInMemory ==
    /\ Idle
    /\ metricBuffer' = cleanMetricBuffer(metricBuffer)
    /\ UNCHANGED <<config, logBuffer, calls, ret, args, result, held>>
    /\ backing' = metricsOver(backing.metrics)

NextAlias ==
    \/ BatchLogInMemory
    \/ BatchMetricInMemory
    \/ SendLogsInMemory
    \/ SendMetricsInMemory
    \/ CleanLogsBufferInMemory
    \/ CleanMetricBufferInMemory
    \/ Return

SpecAlias == InitAlias /\ [][NextAlias]_vars

(* ------------------------ both buffers in use -------------------------- *)

\* The operations of the sender from every pair of a log buffer and a
\* metric buffer below the cap, as pushes leave them: a push that drains
\* its buffer happens while records of the other kind are waiting.

BothRecords(p) == { Record(p, n, FALSE) : n \in {1, MaxLineLen} }

BothBuffers == { b \in BuffersOf(BothRecords(1)) : Len(b) < maxBufferSize }

InitBoth ==
    /\ config \in Configs
    /\ logBuffer \in BothBuffers
    /\ metricBuffer \in BothBuffers
    /\ calls = <<>>
    /\ ret = NoRet
    /\ AuxUnused

BatchLogBoth ==
    /\ Idle
    /\ \E log \in BothRecords(Len(logBuffer) + 1) :
         LET buf == Append(logBuffer, log)
         IN  IF bufferFull(Len(buf))
             THEN \E outs \in LogOutcomes(buf) :
                    LET r == sendLogs(config, buf, Metadata(config), outs)
                    IN  /\ logBuffer' = cleanLogsBuffer(buf)
                        /\ calls' = r.calls
                        /\ ret' = Result("batchLog", buf, r)
             ELSE /\ logBuffer' = buf
                  /\ calls' = <<>>
                  /\ ret' = Pushed("batchLog", buf)
    /\ UNCHANGED <<config, metricBuffer>>
    /\ UNCHANGED aux

\* Mutant (C33): batchMetric clears the log buffer after its drain.
BatchMetricBoth_cleansLogs ==
    /\ Idle
    /\ \E metric \in BothRecords(Len(metricBuffer) + 1) :
         LET buf == Append(metricBuffer, metric)
         IN  IF bufferFull(Len(buf))
             THEN \E outs \in MetricOutcomes(buf) :
                    LET r == sendMetrics(config, buf, Metadata(config), outs)
                    IN  /\ metricBuffer' = buf
                        /\ logBuffer' = cleanLogsBuffer(logBuffer)
                        /\ calls' = r.calls
                        /\ ret' = Result("batchMetric", buf, r)
             ELSE /\ metricBuffer' = buf
                  /\ logBuffer' = logBuffer
                  /\ calls' = <<>>
                  /\ ret' = Pushed("batchMetric", buf)
    /\ UNCHANGED config
    /\ UNCHANGED aux

BatchMetricBoth ==
    /\ Idle
    /\ \E metric \in BothRecords(Len(metricBuffer) + 1) :
         LET buf == Append(metricBuffer, metric)
         IN  IF bufferFull(Len(buf))
             THEN \E outs \in MetricOutcomes(buf) :
                    LET r == sendMetrics(config, buf, Metadata(config), outs)
                    IN  /\ metricBuffer' = cleanMetricBuffer(buf)
                        /\ calls' = r.calls
                        /\ ret' = Result("batchMetric", buf, r)
             ELSE /\ metricBuffer' = buf
                  /\ calls' = <<>>
                  /\ ret' = Pushed("batchMetric", buf)
    /\ UNCHANGED <<config, logBuffer>>
    /\ UNCHANGED aux

NextBoth ==
    \/ BatchLogBoth
    \/ BatchMetricBoth
    \/ SendLogs
    \/ SendMetrics
    \/ CleanLogsBuffer
    \/ CleanMetricBuffer
    \/ Return

SpecBoth == InitBoth /\ [][NextBoth]_vars

(* ------------------------- reading a result ---------------------------- *)

LogOps == {"batchLog", "sendLogs"}
MetricOps == {"batchMetric", "sendMetrics"}

\* The pipeline of the operation that just returned.
OpPipeline ==
    IF ret.op \in LogOps THEN LogsPipeline
    ELSE IF ret.op \in MetricOps THEN MetricsPipeline
    ELSE TracesPipeline

\* A drain of logs or of metrics has just returned.
Drained == ret.drained /\ ret.op \in LogOps \cup MetricOps

OTLPDrain ==
    /\ Drained
    /\ \/ ret.op \in LogOps /\ config.LogFormat = OTLPLogFormat
       \/ ret.op \in MetricOps /\ config.MetricFormat = OTLPMetricFormat

LineDrain == Drained /\ ~OTLPDrain

Range(seq) == { seq[i] : i \in 1..Len(seq) }

PosSet(records) == { records[i].pos : i \in 1..Len(records) }

Failed(c) == CallErr(c) # Nil

\* Positions of the drained records whose line failed to format.
FormatFailed ==
    { ret.buf[i].pos : i \in { j \in 1..Len(ret.buf) :
                             format(config, OpPipeline, ret.buf[j]).err # Nil } }

\* Positions of the records whose line was in a body that failed / succeeded.
InFailedBody == UNION { Range(calls[i].recs) : i \in { j \in 1..Len(calls) : Failed(calls[j]) } }

InSentBody == UNION { Range(calls[i].recs) : i \in { j \in 1..Len(calls) : ~Failed(calls[j]) } }

RECURSIVE SelectFormatted(_)
SelectFormatted(buffer) ==
    IF buffer = <<>> THEN <<>>
    ELSE LET f == format(config, OpPipeline, Head(buffer))
         IN  IF f.err # Nil THEN SelectFormatted(Tail(buffer))
             ELSE <<f.line>> \o SelectFormatted(Tail(buffer))

\* strings.Split(body, "\n"): the empty body splits into one empty line.
RECURSIVE Split(_)
Split(body) ==
    IF \A i \in 1..Len(body) : body[i] # NL THEN <<body>>
    ELSE LET k == CHOOSE i \in 1..Len(body) :
                    body[i] = NL /\ \A j \in 1..(i - 1) : body[j] # NL
         IN  <<SubSeq(body, 1, k - 1)>> \o Split(SubSeq(body, k + 1, Len(body)))

\* strings.Join(lines, "\n")
RECURSIVE Join(_)
Join(lines) ==
    IF lines = <<>> THEN <<>>
    ELSE IF Len(lines) = 1 THEN lines[1]
    ELSE lines[1] \o <<NL>> \o Join(Tail(lines))

RECURSIVE BodyLines(_)
BodyLines(cs) ==
    IF cs = <<>> THEN <<>> ELSE Split(Head(cs).body) \o BodyLines(Tail(cs))

(* ------------------------------- claims -------------------------------- *)

\* C1: in a line-oriented drain no record whose line was in a body that was
\* transmitted successfully is in the returned dropped list, whatever the
\* outcome of the other requests of the drain.
C1_SentNeverDropped ==
    LineDrain => PosSet(ret.dropped) \cap InSentBody = {}

\* C1 witness: three requests, the first and third succeed, the second fails
\* and exactly its records are dropped.
C1_Witness ==
    /\ LineDrain
    /\ Len(calls) = 3
    /\ ~Failed(calls[1]) /\ Failed(calls[2]) /\ ~Failed(calls[3])
    /\ PosSet(ret.dropped) = Range(calls[2].recs)

\* C2: in a line-oriented drain the dropped list holds exactly the records
\* whose line failed to format or belonged to a body, threshold-triggered or
\* trailing, whose transmission failed (an append never fails: WriteString
\* returns no error).
C2_DroppedExactly ==
    LineDrain => PosSet(ret.dropped) = FormatFailed \cup InFailedBody

\* C2 witness: a drain with a format failure, a failed threshold flush and a
\* successful body.
C2_Witness ==
    /\ LineDrain
    /\ FormatFailed # {}
    /\ Len(calls) >= 2
    /\ Failed(calls[1]) /\ ~Failed(calls[Len(calls)])
    /\ PosSet(ret.dropped) # PosSet(ret.buf)

\* C3 (as claimed): the request bodies of a line-oriented drain, split on the
\* newline separator in request order, are the formatted lines of the
\* successfully formatted records in buffer order.
C3_BodiesAreTheLines ==
    LineDrain => BodyLines(calls) = SelectFormatted(ret.buf)

\* C4 (as claimed): draining an empty log or metric buffer issues no request
\* and returns an empty dropped list and a nil error, whatever the format.
C4_EmptyDrainSilent ==
    (Drained /\ ret.buf = <<>>) =>
        (calls = <<>> /\ ret.dropped = <<>> /\ ret.err = Nil)

\* C5 (as claimed): a non-empty buffer whose lines, joined by one newline,
\* are shorter than MaxRequestBodySize is drained by exactly one request,
\* whose body holds every line.
C5_OneRequest ==
    (/\ LineDrain
     /\ ret.buf # <<>>
     /\ FormatFailed = {}
     /\ Len(Join(SelectFormatted(ret.buf))) < config.MaxRequestBodySize)
    => (Len(calls) = 1 /\ calls[1].body = Join(SelectFormatted(ret.buf)))

\* C6: a push that leaves fewer than maxBufferSize records in the buffer does
\* not drain: no request, a (nil, nil) return, and the buffer holds the
\* pushed records in push order.
C6_NoDrainBelowCap ==
    (ret.op \in {"batchLog", "batchMetric"} /\ Len(ret.buf) < maxBufferSize) =>
        /\ ~ret.drained
        /\ calls = <<>>
        /\ ret.dropped = <<>> /\ ret.err = Nil
        /\ (IF ret.op = "batchLog" THEN logBuffer ELSE metricBuffer) = ret.buf
        /\ \A i \in 1..Len(ret.buf) : ret.buf[i].pos = i

\* C6 witness: maxBufferSize - 1 records pushed, none drained.
C6_Witness ==
    /\ ret.op = "batchLog" /\ ~ret.drained
    /\ Len(logBuffer) = maxBufferSize - 1

\* C7 (as claimed): the push that brings the buffer to maxBufferSize records
\* returns without draining.
C7_DrainOnNextPush ==
    (ret.op \in {"batchLog", "batchMetric"} /\ Len(ret.buf) = maxBufferSize) =>
        ~ret.drained

\* C7 (amended): the push that brings the buffer to maxBufferSize records
\* performs the drain itself, its own record included, and no push returns
\* with maxBufferSize records in the buffer.
C7_DrainOnCapPush ==
    (ret.op \in {"batchLog", "batchMetric"}) =>
        /\ ret.drained <=> Len(ret.buf) = maxBufferSize
        /\ Len(ret.buf) <= maxBufferSize
        /\ Len(logBuffer) < maxBufferSize /\ Len(metricBuffer) < maxBufferSize

\* C7 witness: a push drained the maxBufferSize records it completed.
C7_Witness ==
    /\ ret.op = "batchMetric" /\ ret.drained
    /\ Len(ret.buf) = maxBufferSize
    /\ calls # <<>>

\* C8 (as claimed): after any drain of logs or metrics returns, auto or
\* explicit, the corresponding buffer is empty.
C8_EmptyAfterDrain ==
    Drained => (IF ret.op \in LogOps THEN logBuffer ELSE metricBuffer) = <<>>

\* C8 (amended): after a drain triggered by a push the buffer is empty; an
\* explicit sendLogs / sendMetrics leaves its buffer as it was, succeeded or
\* failed.
C8_EmptyAfterAutoDrain ==
    /\ (ret.op = "batchLog" /\ ret.drained) => logBuffer = <<>>
    /\ (ret.op = "batchMetric" /\ ret.drained) => metricBuffer = <<>>
    /\ ret.op = "sendLogs" => logBuffer = ret.buf
    /\ ret.op = "sendMetrics" => metricBuffer = ret.buf

\* C8 witness: a failed auto-drain left the buffer empty.
C8_Witness ==
    /\ ret.op = "batchLog" /\ ret.drained
    /\ ret.err # Nil /\ ret.dropped # <<>>
    /\ logBuffer = <<>>

\* C9: a response with status 200 or 204 gives a nil error whatever its body
\* (empty, decodable, undecodable), and the flush it answers adds no record
\* to the dropped list; an operation answered only so reports no transport
\* error.
C9_SuccessStatusNil ==
    /\ \A i \in 1..Len(calls) :
         (~calls[i].resp.doErr /\ calls[i].resp.status \in {200, 204}) =>
            /\ CallErr(calls[i]) = Nil
            /\ ret.drained => PosSet(ret.dropped) \cap Range(calls[i].recs) = {}
    /\ (ret.drained /\ \A i \in 1..Len(calls) :
            ~calls[i].resp.doErr /\ calls[i].resp.status \in {200, 204}) =>
         /\ Len(ret.err) = Len(ret.dropped)
         /\ (LineDrain => PosSet(ret.dropped) = FormatFailed)
         /\ (~LineDrain => ret.err = Nil)

\* C9 witness: a flush answered 204 with an undecodable body, nothing dropped.
C9_Witness ==
    /\ LineDrain
    /\ \E i \in 1..Len(calls) :
         /\ calls[i].resp.status = 204 /\ calls[i].resp.body = "garbage"
         /\ calls[i].recs # <<>>
    /\ ret.dropped = <<>> /\ ret.err = Nil

\* C10: send returns errUnauthorized exactly for a response with status 401,
\* whatever the pipeline, the flush, the body or the content length, and the
\* error the enclosing operation returns matches the sentinel exactly then.
C10_Unauthorized ==
    /\ \A i \in 1..Len(calls) :
         CallErr(calls[i]) = errUnauthorized
            <=> (~calls[i].resp.doErr /\ calls[i].resp.status = 401)
    /\ ret.drained =>
         (IsUnauthorized(ret.err)
            <=> \E i \in 1..Len(calls) :
                  ~calls[i].resp.doErr /\ calls[i].resp.status = 401)

\* C10 witness: a threshold-triggered flush answered 401 with an undecodable
\* body of unknown length; the drain's combined error matches the sentinel.
C10_Witness ==
    /\ LineDrain
    /\ Len(calls) >= 2
    /\ calls[1].resp.status = 401
    /\ calls[1].resp.body = "garbage" /\ calls[1].resp.contentLength = -1
    /\ IsUnauthorized(ret.err)

\* The responses handleReceiverResponse saw that are neither a success
\* status nor 401.
ErrorCalls ==
    { i \in 1..Len(calls) :
        ~calls[i].resp.doErr /\ calls[i].resp.status \notin {200, 204, 401} }

Entry(name, value) == IF value = "" THEN <<>> ELSE <<name, value>>

\* "failed sending data: status: S, id: I, code: C, message: M, errors: E"
\* with the entries of the empty fields of document d left out.
StatusAndFields(status, d) ==
    <<"failed sending data", "status", ToString(status)>>
    \o Entry("id", d.id) \o Entry("code", d.code) \o Entry("message", d.message)
    \o (IF d.errors = <<>> THEN <<>> ELSE <<"errors">> \o ErrorsText(d.errors))

\* The document the interpreter reads: the body's when ContentLength is
\* positive, none otherwise.
ReadDoc(resp) == IF resp.contentLength > 0 THEN resp.json ELSE NoJSON

\* err carries the raw text of the body of resp.
CarriesBody(err, resp) ==
    \E k \in 1..(Len(err) - 1) : err[k] = "body" /\ err[k + 1] = resp.body

\* C11 (as claimed): every response whose status is not 200, 204 or 401
\* gives a non-nil error whose message is the list of status, id, code,
\* message and errors, in that order, without the fields that are empty.
C11_ListsStatusAndFields ==
    \A i \in ErrorCalls :
        /\ CallErr(calls[i]) # Nil
        /\ CallErr(calls[i])
             = StatusAndFields(calls[i].resp.status, ReadDoc(calls[i].resp))

\* C11 (amended): every response whose status is not 200, 204 or 401 gives a
\* non-nil error; when a body of positive ContentLength fails to decode the
\* message is the status and the raw body, in every other case it is the list
\* of status, id, code, message and errors, in that order, of the document
\* read (none when ContentLength is zero or unknown), without the fields that
\* are empty; sendTraces returns that error.
C11_ListsFieldsOrRawBody ==
    \A i \in ErrorCalls :
        LET resp == calls[i].resp
            err == CallErr(calls[i])
        IN  /\ err # Nil
            /\ IF resp.contentLength > 0 /\ resp.body = "garbage"
               THEN err = <<"failed to decode API response",
                            "status", ToString(resp.status), "body", resp.body>>
               ELSE err = StatusAndFields(resp.status, ReadDoc(resp))
            /\ ret.op = "sendTraces" => ret.err = <<err>>

\* C11 witness: a 202 response whose document holds an id and a message but
\* no code and no errors.
C11_Witness ==
    /\ ret.op = "sendTraces"
    /\ Len(calls) = 1 /\ calls[1].resp.status = 202
    /\ ret.err = << <<"failed sending data", "status", "202",
                      "id", "id1", "message", "msg1">> >>

\* C12 (as claimed): a response whose body does not decode gives a non-nil
\* error that carries the raw body, whatever the status.
C12_UndecodableIsError ==
    \A i \in 1..Len(calls) :
        (~calls[i].resp.doErr /\ calls[i].resp.body = "garbage") =>
            /\ CallErr(calls[i]) # Nil
            /\ CarriesBody(CallErr(calls[i]), calls[i].resp)

\* C12 (amended): a body that does not decode gives a nil error exactly when
\* the status is 200 or 204, errUnauthorized when it is 401, and for every
\* other status a non-nil error that carries the status, and the raw body
\* exactly when ContentLength is positive (the body is not read otherwise).
C12_UndecodableByStatus ==
    \A i \in 1..Len(calls) :
        LET resp == calls[i].resp
            err == CallErr(calls[i])
        IN  (~resp.doErr /\ resp.body = "garbage") =>
              /\ err = Nil <=> resp.status \in {200, 204}
              /\ resp.status = 401 => err = errUnauthorized
              /\ i \in ErrorCalls =>
                   /\ \E k \in 1..(Len(err) - 1) :
                        err[k] = "status" /\ err[k + 1] = ToString(resp.status)
                   /\ CarriesBody(err, resp) <=> resp.contentLength > 0

\* C12 witness: a 500 response with an undecodable body of positive length;
\* sendTraces returns the decode error with the raw body.
C12_Witness ==
    /\ ret.op = "sendTraces"
    /\ Len(calls) = 1
    /\ calls[1].resp.status = 500 /\ calls[1].resp.body = "garbage"
    /\ calls[1].resp.contentLength > 0
    /\ ret.err = << <<"failed to decode API response", "status", "500",
                      "body", "garbage">> >>

\* C13: an OTLP drain of logs or metrics issues exactly one request, whose
\* payload encodes every record of the buffer in buffer order, whatever its
\* size; when the request fails the dropped list is the whole buffer in
\* buffer order with a non-nil error, when it succeeds the dropped list is
\* empty and the error nil (marshalling itself does not fail).
C13_OTLPOneRequest ==
    OTLPDrain =>
        /\ Len(calls) = 1
        /\ calls[1].recs = [i \in 1..Len(ret.buf) |-> ret.buf[i].pos]
        /\ calls[1].body =
             (IF ret.op \in LogOps THEN <<OTLPTag>> ELSE <<>>) \o calls[1].recs
        /\ Failed(calls[1]) => (ret.dropped = ret.buf /\ ret.err # Nil)
        /\ ~Failed(calls[1]) => (ret.dropped = <<>> /\ ret.err = Nil)

\* C13 witness: an OTLP drain whose payload is longer than
\* MaxRequestBodySize went out in one request, which failed; the whole
\* buffer is dropped.
C13_Witness ==
    /\ OTLPDrain
    /\ Len(calls) = 1
    /\ Len(calls[1].body) > config.MaxRequestBodySize
    /\ Failed(calls[1])
    /\ Len(ret.buf) = maxBufferSize /\ ret.dropped = ret.buf

\* The format configured for the signal of the operation that just returned
\* is not one the sender supports.
UnsupportedFormat ==
    CASE ret.op \in LogOps ->
           config.LogFormat \notin {TextFormat, JSONFormat, OTLPLogFormat}
      [] ret.op \in MetricOps ->
           config.MetricFormat \notin {PrometheusFormat, Carbon2Format,
                                       GraphiteFormat, OTLPMetricFormat}
      [] OTHER -> config.TraceFormat # OTLPTraceFormat

\* C14 (as claimed): a drain of a non-empty buffer, or a send of traces,
\* under an unsupported format returns a non-nil error and issues no
\* request.
C14_UnsupportedFormatFails ==
    (/\ ret.drained
     /\ UnsupportedFormat
     /\ (ret.op \in LogOps \cup MetricOps => ret.buf # <<>>))
    => (ret.err # Nil /\ calls = <<>>)

\* The lengths the body of call c had between appends: before each
\* separator was written, and when it was transmitted.
AtRest(c) ==
    { k - 1 : k \in { j \in 1..Len(c.body) : c.body[j] = NL } } \cup {Len(c.body)}

HasSeparator(body) == \E k \in 1..Len(body) : body[k] = NL

\* The line written to body right after the separator at k.
LineAfter(body, k) == Split(SubSeq(body, k + 1, Len(body)))[1]

\* C15 (as claimed): a line is written after a separator only if the body,
\* the separator and the line together stay below MaxRequestBodySize, so
\* every transmitted body that holds more than one line is strictly shorter
\* than MaxRequestBodySize.
C15_SeparatorCounted ==
    LineDrain =>
        \A i \in 1..Len(calls) :
            /\ \A k \in 1..Len(calls[i].body) :
                 calls[i].body[k] = NL =>
                    (k - 1) + 1 + Len(LineAfter(calls[i].body, k))
                        < config.MaxRequestBodySize
            /\ HasSeparator(calls[i].body) =>
                 Len(calls[i].body) < config.MaxRequestBodySize

\* C15 (amended): appendAndSend transmits and resets a non-empty body
\* exactly when its length plus the line's length, the separator not
\* counted, meets or exceeds MaxRequestBodySize; so a line follows a
\* separator only where body and line together were below the limit, a
\* threshold flush happened only where they were not, and every transmitted
\* body that holds a separator is at most MaxRequestBodySize long.
C15_SeparatorNotCounted ==
    LineDrain =>
        \A i \in 1..Len(calls) :
            /\ \A k \in 1..Len(calls[i].body) :
                 calls[i].body[k] = NL =>
                    /\ k > 1
                    /\ (k - 1) + Len(LineAfter(calls[i].body, k))
                         < config.MaxRequestBodySize
            /\ i < Len(calls) =>
                 Len(calls[i].body) + Len(Split(calls[i + 1].body)[1])
                     >= config.MaxRequestBodySize
            /\ HasSeparator(calls[i].body) =>
                 Len(calls[i].body) <= config.MaxRequestBodySize

\* C15 witness: a threshold flush transmitted a body of two lines that is
\* exactly MaxRequestBodySize long.
C15_Witness ==
    /\ LineDrain
    /\ Len(calls) >= 2
    /\ HasSeparator(calls[1].body)
    /\ Len(calls[1].body) = config.MaxRequestBodySize

\* C16 (as claimed): between the appends of a line-oriented drain the body
\* is never longer than MaxRequestBodySize.
C16_BodyWithinLimit ==
    LineDrain =>
        \A i \in 1..Len(calls) : \A n \in AtRest(calls[i]) :
            n <= config.MaxRequestBodySize

\* C16 (amended): between the appends of a line-oriented drain the body is
\* longer than MaxRequestBodySize only when it is a single line that is
\* itself longer, and nothing is appended to such a body before it is
\* transmitted.
C16_BodyWithinLimitUnlessOneLine ==
    LineDrain =>
        \A i \in 1..Len(calls) : \A n \in AtRest(calls[i]) :
            n > config.MaxRequestBodySize =>
                /\ ~HasSeparator(calls[i].body)
                /\ n = Len(calls[i].body)

\* C16 witness: a body of one line longer than MaxRequestBodySize between
\* two bodies within the limit.
C16_Witness ==
    /\ LineDrain
    /\ Len(calls) = 3
    /\ Len(calls[1].body) <= config.MaxRequestBodySize
    /\ Len(calls[2].body) > config.MaxRequestBodySize
    /\ Len(calls[3].body) <= config.MaxRequestBodySize

\* The records of the drained buffer whose line is at least
\* MaxRequestBodySize long.
Oversized ==
    { i \in 1..Len(ret.buf) :
        LET f == format(config, OpPipeline, ret.buf[i])
        IN  f.err = Nil /\ Len(f.line) >= config.MaxRequestBodySize }

\* The calls whose body holds a character of the line of record i.
CallsHolding(i) ==
    { j \in 1..Len(calls) :
        \E k \in 1..Len(calls[j].body) : calls[j].body[k] = ret.buf[i].pos }

\* C17: in a line-oriented drain a line at least MaxRequestBodySize long is
\* transmitted whole, in exactly one request whose body is that line alone,
\* and its record is dropped exactly when that request fails.
C17_OversizedAlone ==
    LineDrain =>
        \A i \in Oversized :
            /\ Cardinality(CallsHolding(i)) = 1
            /\ \A j \in CallsHolding(i) :
                 /\ calls[j].body = format(config, OpPipeline, ret.buf[i]).line
                 /\ ret.buf[i].pos \in PosSet(ret.dropped) <=> Failed(calls[j])

\* C17 witness: the second of three records has a line at least
\* MaxRequestBodySize long; it went out alone in the second request, which
\* failed, and it is the only record dropped.
C17_Witness ==
    /\ LineDrain
    /\ Len(ret.buf) = 3 /\ Oversized = {2}
    /\ Len(calls) = 3
    /\ Failed(calls[2]) /\ ~Failed(calls[1]) /\ ~Failed(calls[3])
    /\ ret.dropped = <<ret.buf[2]>>

FormatOK(record) == format(config, OpPipeline, record).err = Nil

FormatBad(record) == ~FormatOK(record)

IsFormatError(e) == e \in {<<"json: unsupported value">>,
                           <<"unexpected log format">>,
                           <<"unexpected metric format">>}

IsSendError(e) == ~IsFormatError(e)

\* The drain that just returned, run on the buffer without the records
\* whose line fails to format, its requests answered the same way.
DrainWithoutBad ==
    LET good == SelectSeq(ret.buf, FormatOK)
        outs == [i \in 1..Len(calls) |-> calls[i].resp] \o AllOK
    IN  IF ret.op \in LogOps
        THEN sendLogs(config, good, Metadata(config), outs)
        ELSE sendMetrics(config, good, Metadata(config), outs)

\* C18: in a line-oriented drain every record whose line fails to format is
\* dropped with one error of its own, and the requests, the other dropped
\* records and the other errors are those of the same drain on the buffer
\* without the failed records.
C18_FormatFailureIsolated ==
    LineDrain =>
        LET without == DrainWithoutBad
        IN  /\ SelectSeq(ret.dropped, FormatBad) = SelectSeq(ret.buf, FormatBad)
            /\ Len(SelectSeq(ret.err, IsFormatError))
                 = Len(SelectSeq(ret.buf, FormatBad))
            /\ calls = without.calls
            /\ SelectSeq(ret.dropped, FormatOK) = without.dropped
            /\ SelectSeq(ret.err, IsSendError) = without.err

\* C18 witness: the second of three records fails to format; the first and
\* the third are transmitted, and only the second is dropped.
C18_Witness ==
    /\ LineDrain
    /\ Len(ret.buf) = 3
    /\ FormatBad(ret.buf[2]) /\ FormatOK(ret.buf[1]) /\ FormatOK(ret.buf[3])
    /\ Len(calls) = 2 /\ calls[1].recs = <<1>> /\ calls[2].recs = <<3>>
    /\ ~Failed(calls[1]) /\ ~Failed(calls[2])
    /\ ret.dropped = <<ret.buf[2]>>
    /\ Len(ret.err) = 1

\* The format configured for the pipeline of call c.
CallFormat(c) ==
    CASE c.pipeline = LogsPipeline -> config.LogFormat
      [] c.pipeline = MetricsPipeline -> config.MetricFormat
      [] OTHER -> config.TraceFormat

\* C19: every request carries exactly one Content-Type: the form type for
\* text and JSON logs, the Prometheus, Carbon2 and Graphite types for these
\* metric formats, the protobuf type for OTLP logs, metrics and traces.
C19_ContentType ==
    \A i \in 1..Len(calls) :
        LET c == calls[i]
        IN  /\ Len(c.headers.contentType) = 1
            /\ (c.pipeline = LogsPipeline
                  /\ CallFormat(c) \in {TextFormat, JSONFormat})
                 => c.headers.contentType[1] = "application/x-www-form-urlencoded"
            /\ (c.pipeline = MetricsPipeline /\ CallFormat(c) = PrometheusFormat)
                 => c.headers.contentType[1] = "application/vnd.sumologic.prometheus"
            /\ (c.pipeline = MetricsPipeline /\ CallFormat(c) = Carbon2Format)
                 => c.headers.contentType[1] = "application/vnd.sumologic.carbon2"
            /\ (c.pipeline = MetricsPipeline /\ CallFormat(c) = GraphiteFormat)
                 => c.headers.contentType[1] = "application/vnd.sumologic.graphite"
            /\ CallFormat(c) = "otlp"
                 => c.headers.contentType[1] = "application/x-protobuf"

\* C19 witness: a drain of Carbon2 metrics issued two requests, both with
\* the Carbon2 content type.
C19_Witness ==
    /\ ret.op \in MetricOps /\ config.MetricFormat = Carbon2Format
    /\ Len(calls) = 2
    /\ \A i \in 1..2 :
         calls[i].headers.contentType = <<"application/vnd.sumologic.carbon2">>

\* C20 (as claimed): every request, of logs, metrics or traces, whose
\* metadata renders to a non-empty string carries that string in one
\* X-Sumo-Fields header, and no request carries an empty X-Sumo-Fields.
C20_FieldsOnEveryRequest ==
    \A i \in 1..Len(calls) :
        /\ fieldsString(Metadata(config)) # <<>> =>
             calls[i].headers.fields = <<fieldsString(Metadata(config))>>
        /\ \A k \in 1..Len(calls[i].headers.fields) :
             calls[i].headers.fields[k] # <<>>

\* C20 (amended): every logs request whose metadata renders to a non-empty
\* string carries that string in one X-Sumo-Fields header; a logs request
\* whose metadata renders to the empty string, and every metrics and traces
\* request, carries no X-Sumo-Fields header.
C20_FieldsOnLogsRequests ==
    \A i \in 1..Len(calls) :
        calls[i].headers.fields =
            (IF calls[i].pipeline = LogsPipeline
                /\ fieldsString(Metadata(config)) # <<>>
             THEN <<fieldsString(Metadata(config))>>
             ELSE <<>>)

\* C20 witness: a logs request with the header "a=1, b=2" of its metadata.
C20_Witness ==
    /\ ret.op \in LogOps
    /\ calls # <<>>
    /\ calls[1].headers.fields = << <<"a", "=", "1", ",", " ", "b", "=", "2">> >>


\* The entries of an attribute map that are neither under a source key nor
\* empty-valued.
KeptEntries(attrs) ==
    SelectSeq(attrs, LAMBDA e : e[1] \notin SourceKeys /\ e[2] # <<>>)

Arrangements(strs) ==
    { [i \in 1..Len(strs) |-> strs[f[i]]] : f \in [1..Len(strs) -> 1..Len(strs)] }

IsArrangement(perm, strs) ==
    /\ Len(perm) = Len(strs)
    /\ \A e \in Range(strs) :
         Cardinality({ i \in 1..Len(perm) : perm[i] = e })
         = Cardinality({ i \in 1..Len(strs) : strs[i] = e })

Ascending(strs) ==
    \A i \in 1..(Len(strs) - 1) : ~stringLess(strs[i + 1], strs[i])

\* The one ascending arrangement of a list of strings.
InAscendingOrder(strs) ==
    CHOOSE perm \in Arrangements(strs) : IsArrangement(perm, strs) /\ Ascending(perm)

CommaSpace == <<",", " ">>

RawEntries(attrs) ==
    LET kept == KeptEntries(attrs)
    IN  [i \in 1..Len(kept) |-> kept[i][1] \o <<"=">> \o kept[i][2]]

Rewritten(str) ==
    [i \in 1..Len(str) |->
        IF str[i] \in {",", "\n"} THEN "_" ELSE IF str[i] = "=" THEN ":" ELSE str[i]]

SanitizedEntries(attrs) ==
    LET kept == KeptEntries(attrs)
    IN  [i \in 1..Len(kept) |-> Rewritten(kept[i][1]) \o <<"=">> \o Rewritten(kept[i][2])]

\* C21: fields.string() is the key=value entries of the attribute map, as
\* they are, joined by ", " in ascending order, without the entries under
\* the three source keys and without the entries of empty value.
C21_RawEntriesSorted ==
    result # <<>> =>
        result[1] = stringsJoin(InAscendingOrder(RawEntries(args)), CommaSpace)

\* C21 (amended): fields.string() is the key=value entries of the attribute
\* map, each key and value with "," and newline rewritten to "_" and "=" to
\* ":", joined by ", " in ascending order of the rewritten entries, without
\* the entries under the three source keys and without the entries of empty
\* value; so it does not depend on the insertion order of the attributes.
C21_SanitizedEntriesSorted ==
    result # <<>> =>
        /\ result[1] = stringsJoin(InAscendingOrder(SanitizedEntries(args)), CommaSpace)
        /\ \A other \in Arrangements(args) :
             IsArrangement(other, args) => fieldsString(other) = result[1]

\* C21 witness: {b: 1, "a,": "=\n", a: 1} rendered as "a=1, a_=:_, b=1".
C21_Witness ==
    /\ args = << << <<"b">>, <<"1">> >>, << <<"a", ",">>, <<"=", "\n">> >>,
                 << <<"a">>, <<"1">> >> >>
    /\ result = << <<"a", "=", "1", ",", " ", "a", "_", "=", ":", "_", ",", " ",
                     "b", "=", "1">> >>


\* Parsing a JSON line back: the set of its <<key, value>> members.
ParseLine(line) == { line[i] : i \in 1..Len(line) }

AsJSON(v) ==
    CASE v.type = "string" -> JSONString(v.str)
      [] v.type = "int" -> JSONNumber(v.int)
      [] v.type = "map" ->
           JSONObject(sortMembers([i \in 1..Len(v.members) |->
                                      <<v.members[i][1], marshalScalar(v.members[i][2])>>]))
      [] OTHER -> JSONNull

InjectedTimestamp(record) ==
    JSONNumber(IF record.timestamp = 0 THEN record.now
               ELSE record.timestamp \div NsPerMs)

\* logToJSON was applied with timestamp injection enabled to a record whose
\* attributes do not hold the timestamp key.
C22_Case ==
    /\ result # <<>>
    /\ args.cfg.AddTimestamp
    /\ args.cfg.TimestampKey \notin AttrKeys(args.record.attributes)

C22_Plain ==
    /\ args.cfg.metadataKeys \cap AttrKeys(args.record.attributes) = {}
    /\ ~args.cfg.TranslateAttributes
    /\ \A e \in Range(args.record.attributes) : Encodable(e[2])
    /\ Encodable(args.record.body)

RegisteredUnder(name) == { i \in 1..Len(args) : args[i].name = name }

RegisteredAt(name, t) ==
    { i \in RegisteredUnder(name) : args[i].point.timestamp = t }

SuppliesAll(log) ==
    /\ log.body.type = "string"
    /\ log.body.kind = "doc"
    /\ \A f \in {log.body.stream, log.body.time, log.body.log} :
         f.present = "string" /\ f.val # <<>>

\* C24: a log record whose body does not supply all of stream, time and log
\* leaves ProcessLogs as it entered it, whatever records came before it in
\* the call.
C24_UnsuppliedUnchanged ==
    result # <<>> =>
        \A k \in 1..Len(args) : ~SuppliesAll(args[k]) => result[1][k] = args[k]


\* The outcomes of the requests of the drain that just returned, and the
\* state of its loop after the first k records of the buffer.
DrainOuts == [i \in 1..Len(calls) |-> calls[i].resp]

StateAfter(k) ==
    drainLoop(config, OpPipeline, SubSeq(ret.buf, 1, k), Metadata(config),
              DrainStart(DrainOuts))

RecordsAt(positions) == [i \in 1..Len(positions) |-> ret.buf[positions[i]]]

\* C25: when the append of a record triggers a threshold flush that fails,
\* the dropped list gains exactly the records of the transmitted body, and
\* the record becomes the only member of the accumulating set and its line
\* the whole new body; it is in the returned dropped list only if a later
\* request holding it failed.
C25_FailedFlushDropsBody ==
    LineDrain =>
        \A k \in 1..Len(ret.buf) :
            LET before == StateAfter(k - 1)
                after == StateAfter(k)
                record == ret.buf[k]
                n == Len(after.calls)
            IN  (n = Len(before.calls) + 1 /\ Failed(calls[n])) =>
                  /\ calls[n] = after.calls[n]
                  /\ after.droppedRecords
                     = before.droppedRecords \o RecordsAt(calls[n].recs)
                  /\ after.currentRecords = <<record>>
                  /\ after.b.recs = <<k>>
                  /\ after.b.body = format(config, OpPipeline, record).line
                  /\ (record \in Range(ret.dropped) =>
                        \E j \in (n + 1)..Len(calls) :
                            k \in Range(calls[j].recs) /\ Failed(calls[j]))

\* C25 witness: the second record triggers a flush of the first that fails;
\* the first is dropped, the second goes out in the trailing body.
C25_Witness ==
    /\ LineDrain
    /\ Len(ret.buf) = 2
    /\ Len(calls) = 2
    /\ Failed(calls[1]) /\ ~Failed(calls[2])
    /\ calls[2].recs = <<2>>
    /\ ret.dropped = <<ret.buf[1]>>


\* The drain that just returned, had every request succeeded.
DrainAllOK ==
    IF ret.op \in LogOps
    THEN sendLogs(config, ret.buf, Metadata(config), AllOK)
    ELSE sendMetrics(config, ret.buf, Metadata(config), AllOK)

IsPrefix(s, t) == Len(s) <= Len(t) /\ SubSeq(t, 1, Len(s)) = s

\* C26: a failed request does not stop a line-oriented drain or undo
\* anything: the requests issued, with their bodies and records, are those
\* of the same drain with every request succeeding, and the dropped list
\* only grows from record to record up to the list returned.
C26_FailureDoesNotStopDrain ==
    LineDrain =>
        /\ Len(calls) = Len(DrainAllOK.calls)
        /\ \A i \in 1..Len(calls) :
             /\ calls[i].body = DrainAllOK.calls[i].body
             /\ calls[i].recs = DrainAllOK.calls[i].recs
        /\ \A k \in 1..Len(ret.buf) :
             IsPrefix(StateAfter(k - 1).droppedRecords, StateAfter(k).droppedRecords)
        /\ IsPrefix(StateAfter(Len(ret.buf)).droppedRecords, ret.dropped)

\* C26 witness: three requests, the first fails, the second succeeds and
\* the third fails; the records of the first are still in the dropped list
\* ahead of those of the third.
C26_Witness ==
    /\ LineDrain
    /\ Len(calls) = 3
    /\ Failed(calls[1]) /\ ~Failed(calls[2]) /\ Failed(calls[3])
    /\ ret.dropped = RecordsAt(calls[1].recs \o calls[3].recs)


TimesDropped(record) ==
    Cardinality({ i \in 1..Len(ret.dropped) : ret.dropped[i] = record })

\* C29: after a line-oriented drain every record of the buffer either had
\* its line in a body that was transmitted successfully or is in the
\* returned dropped list exactly once, and never both.
C29_SentOrDropped ==
    LineDrain =>
        \A k \in 1..Len(ret.buf) :
            \/ k \in InSentBody /\ TimesDropped(ret.buf[k]) = 0
            \/ k \notin InSentBody /\ TimesDropped(ret.buf[k]) = 1


\* The attribute map holds the annotation as the string "true" or as the
\* boolean true.
AnnotatedTrue(atts, annotation) ==
    \E e \in Range(atts) :
        /\ e[1] = AnnotationPrefix \o <<annotation>>
        /\ e[2] \in {StringAttr(True), BoolAttr(TRUE)}

\* Some configured exclusion expression matches the string value of its
\* field.
ExclusionMatches(sp, atts) ==
    \E field \in DOMAIN sp.exclude : \E e \in Range(atts) :
        /\ e[1] = field
        /\ e[2].type = "string"
        /\ \E i \in 1..Len(e[2].str) : e[2].str[i] = sp.exclude[field]

\* C27: isFilteredOut is true when the exclude annotation is true; else
\* false when the include annotation is true; else true exactly when an
\* exclusion expression matches the string value of its field.
C27_StrictPrecedence ==
    result # <<>> =>
        result[1] =
            (\/ AnnotatedTrue(args.atts, excludeAnnotation)
             \/ /\ ~AnnotatedTrue(args.atts, includeAnnotation)
                /\ ExclusionMatches(args.sp, args.atts))

\* C27 witness: both annotations true and no expression matching: the
\* resource is filtered out.
C27_Witness ==
    /\ result = <<TRUE>>
    /\ AnnotatedTrue(args.atts, excludeAnnotation)
    /\ AnnotatedTrue(args.atts, includeAnnotation)
    /\ ~ExclusionMatches(args.sp, args.atts)


\* The dash-separated segments of the pod attribute ("" when it is not a
\* string), and the template hash.
PodSegments == stringsSplit(StringVal(Get(args.atts, <<"pod">>).value), "-")

HasPod == <<"pod">> \in AttrKeys(args.atts)

HasHash == <<"pod_labels_pod-template-hash">> \in AttrKeys(args.atts)

Hash == StringVal(Get(args.atts, <<"pod_labels_pod-template-hash">>).value)

WithoutLast(n) ==
    stringsJoin(SubSeq(PodSegments, 1, Len(PodSegments) - n), <<"-">>)

HashMatches ==
    /\ Len(PodSegments) > 2
    /\ HasHash
    /\ PodSegments[Len(PodSegments) - 1] \in {Hash, SafeEncodeString(Hash)}

PodNameIs(atts, chars) ==
    \E e \in Range(atts) : e[1] = <<"pod_name">> /\ e[2] = StringAttr(chars)

\* C28: with a pod of more than two segments, a template hash present and
\* the second-to-last segment equal to the hash or to its safe encoding,
\* pod_name becomes the pod without its last two segments; otherwise, with
\* a pod of at least two segments, the pod without its last segment; with no
\* pod or a pod of fewer than two segments the attributes stay as they are.
C28_PodNameStripped ==
    result # <<>> =>
        IF ~HasPod \/ Len(PodSegments) < 2 THEN result[1] = args.atts
        ELSE /\ PodNameIs(result[1], WithoutLast(IF HashMatches THEN 2 ELSE 1))
             /\ \A e \in Range(args.atts) :
                  e[1] # <<"pod_name">> => e \in Range(result[1])
             /\ AttrKeys(result[1]) = AttrKeys(args.atts) \cup {<<"pod_name">>}

\* C28 witness: the pod a-9-a with the template hash 5, whose safe encoding
\* is 9: pod_name becomes a.
C28_Witness ==
    /\ result # <<>>
    /\ Get(args.atts, <<"pod">>).value = StringAttr(<<"a", "-", "9", "-", "a">>)
    /\ HasHash /\ Hash = <<"5">>
    /\ PodNameIs(result[1], <<"a">>)


\* C30: the dropped list a drain returned reads the same after every later
\* operation on the sender as when it was returned.
C30_DroppedListKept == ReadHeld = held.returned

\* The drain of buffer whose requests and results are the ones just
\* recorded.
IsDrainOf(buffer, loggish) ==
    \E outs \in (IF loggish THEN LogOutcomes(buffer) ELSE MetricOutcomes(buffer)) :
        LET r == IF loggish THEN sendLogs(config, buffer, Metadata(config), outs)
                 ELSE sendMetrics(config, buffer, Metadata(config), outs)
        IN  calls = r.calls /\ ret.dropped = r.dropped /\ ret.err = r.err

\* The push that just returned: own is its buffer now.
AfterPush(own, loggish) ==
    /\ Len(own) < maxBufferSize
    /\ IF ret.drained
       THEN /\ Len(ret.buf) = maxBufferSize
            /\ own = <<>>
            /\ IsDrainOf(ret.buf, loggish)
       ELSE /\ own = ret.buf
            /\ calls = <<>>

\* The buffer a push worked on is the buffer before with one record added.
OneMore(before, buf) ==
    /\ Len(buf) = Len(before) + 1
    /\ SubSeq(buf, 1, Len(before)) = before

\* C31: after batchLog / batchMetric returns, its buffer holds fewer than
\* maxBufferSize records; the push that brings it to maxBufferSize drains
\* the buffer with the pushed record in it and leaves the buffer empty,
\* whatever the outcomes of the requests.
C31_PushKeepsBelowCap ==
    /\ [](/\ ret.op = "batchLog" => AfterPush(logBuffer, TRUE)
          /\ ret.op = "batchMetric" => AfterPush(metricBuffer, FALSE))
    /\ [][/\ (ret.op = "none" /\ ret'.op = "batchLog") =>
              OneMore(logBuffer, ret'.buf)
         /\ (ret.op = "none" /\ ret'.op = "batchMetric") =>
              OneMore(metricBuffer, ret'.buf)]_vars

\* C31 witness: a push completed maxBufferSize log records, the drain
\* succeeded and the buffer is empty.
C31_Witness ==
    /\ ret.op = "batchLog" /\ ret.drained
    /\ Len(ret.buf) = maxBufferSize
    /\ calls # <<>> /\ ret.err = Nil
    /\ logBuffer = <<>>

\* C32: when a line-oriented drain of logs or of metrics returns, its error
\* is non-nil exactly when its dropped list is non-empty: no record is
\* dropped without an error and no error is returned without a dropped
\* record.
C32_ErrorIffDropped ==
    LineDrain => (ret.err # Nil <=> ret.dropped # <<>>)

\* A drain of several requests of which one failed and one succeeded.
C32_Witness ==
    /\ LineDrain
    /\ ret.err # Nil
    /\ ret.dropped # <<>>
    /\ Len(ret.dropped) < Len(ret.buf)
    /\ \E i \in 1..Len(calls) : Failed(calls[i])
    /\ \E i \in 1..Len(calls) : ~Failed(calls[i])

OnPipeline(pipeline) == \A i \in 1..Len(calls) : calls[i].pipeline = pipeline

\* C33: the log buffer and the metric buffer are independent.  A push or a
\* drain of logs leaves the metric buffer as it was and issues requests on
\* the logs pipeline only, emptying the log buffer leaves the metric buffer
\* as it was and issues no request, and the same holds with logs and
\* metrics exchanged.
C33_BuffersIndependent ==
    /\ [](/\ ret.op \in LogOps => OnPipeline(LogsPipeline)
          /\ ret.op \in MetricOps => OnPipeline(MetricsPipeline))
    /\ [][/\ ret'.op \in LogOps => metricBuffer' = metricBuffer
          /\ ret'.op \in MetricOps => logBuffer' = logBuffer
          /\ CleanLogsBuffer => (metricBuffer' = metricBuffer /\ calls' = calls)
          /\ CleanMetricBuffer => (logBuffer' = logBuffer /\ calls' = calls)]_vars

\* A push of a log record drained the log buffer while metric records
\* were waiting.
C33_Witness ==
    /\ ret.op = "batchLog"
    /\ ret.drained
    /\ calls # <<>>
    /\ logBuffer = <<>>
    /\ metricBuffer # <<>>

====
